---------------------------- MODULE Spec2Model ----------------------------
(***************************************************************************)
(* A model of the scoring code of the exam corrector:                      *)
(*   exam/assess/__init__.py  calculate_score_from_assessments,            *)
(*                            Feature, FeatureAssessment, enumerate_features*)
(*                            AnswerAssessment.calculate_score,            *)
(*                            TestAssessment.add_assessment                *)
(*   exam/mcp/__init__.py     load_exam_from_yaml, assess_student_exam,    *)
(*                            assess_full_exam, AssessmentContext,         *)
(*                            load_student_answer, load_checklist          *)
(*   exam/assess/__init__.py  StudentAssessment.total_score,               *)
(*                            TestAssessment.pretty_print                  *)
(*   exam/mlflow/__init__.py  calculate_overhead                           *)
(*   langGraphClient.py       ExamAssessmentGraph                          *)
(*                                                                         *)
(* Python floats are modelled as IEEE-754 binary64 values (round to        *)
(* nearest, ties to even), so that round(x, 2) and "%.0f" give the digits  *)
(* the program gives.  A float that the program produces with round(x, n)  *)
(* is represented by its integer number of 10^-n units (a score of 2.02 is *)
(* the integer 202); the float itself is FDivInt(202, 100).                *)
(***************************************************************************)
EXTENDS Integers, Sequences, FiniteSets, TLC

VARIABLES
    assessment,   \* AnswerAssessment.assessment / feature_assessments_dict of the
                  \* answer being assessed: dict[Feature, FeatureAssessment]
    weight,       \* question.weight / question["score"] of its question, in hundredths
    ret,          \* what the last operation returned (None: nothing)
    returned,     \* the scoring calls made since assessment last changed, with what
                  \* each returned, in the order of the calls
    checklist,    \* the checklist (Answer) at hand, None when there is none
    \* ExamMCPServer.context
    loaded_exams,       \* context.loaded_exams: the loaded exam, None before a load
    loaded_checklists,  \* context.loaded_checklists: dict[question id, Answer]
    \* assess_student_exam
    pc,                 \* where the call stands: "idle", "question", "feature", "returned"
    student_email,      \* its argument
    student_data,       \* the student matched
    question,           \* the place in questions of the question at hand
    pending,            \* what enumerate_features(checklist) has still to yield
    question_assessments,  \* the list of the records of the questions
    total_score,        \* floats
    total_max_score,
    result,             \* what the call returns (None: nothing yet)
    trace,              \* the calls of the oracle and of the scoring function, in order
    \* assess_full_exam
    batch_pc,           \* where the call stands: "idle", "loop", "returned"
    responses_data,     \* the rows of the responses file
    max_students,       \* its argument (None: not supplied; <<n>>: the int n)
    students,           \* the students to assess
    idx,                \* how many of them have been assessed
    batch_results,      \* the list of the records of the students
    summary,            \* what the call returns (None: nothing yet)
    \* assess_student_exam, the body of the loop over the questions
    feature_assessments_list,  \* the list of the records of the features
    \* load_student_answer
    loaded_answers,     \* context.loaded_answers: dict[key, answer text]
    answer_file,        \* the text of the answer file on the file system
    reads,              \* how many times the file system has been read
    exam_dir,           \* ExamMCPServer.exam_dir, None when not configured
    \* ExamAssessmentGraph.run: the node to run next and the keys of the state
    node,               \* "idle", a node of the graph, "END" or "raised"
    next_action,
    students_to_assess,
    current_student_code,
    state_assessments,     \* state["assessments"]
    state_result,          \* state["result"]
    state_checklists,      \* state["loaded_checklists"], the ids marked True
    invoked,            \* the arguments of the calls of assess_student_exam, in order
    \* calculate_overhead
    tool_intervals,     \* the (start, end) of the TOOL spans, in the order of the trace
    \* TestAssessment: one student's answers
    answers             \* the (question weight, assessment) of each question

scoringVars == <<assessment, weight, ret, returned>>
studentVars == <<loaded_exams, loaded_checklists, pc, student_email, student_data,
                 question, pending, question_assessments, total_score, total_max_score, result,
                 trace, feature_assessments_list>>
batchVars == <<batch_pc, responses_data, max_students, students, idx, batch_results, summary>>
answerVars == <<loaded_answers, answer_file, reads, exam_dir>>
graphVars == <<node, next_action, students_to_assess, current_student_code,
               state_assessments, state_result, state_checklists, invoked>>
toolVars == <<answerVars, graphVars, tool_intervals, answers>>
vars == <<scoringVars, checklist, studentVars, batchVars, toolVars>>

(***************************************************************************)
(* Natural numbers of any size: little-endian sequences of limbs < Base,   *)
(* without leading zero limbs (zero is the empty sequence).                *)
(***************************************************************************)
LimbBits == 15
Base == 2^LimbBits

RECURSIVE BNat(_)
BNat(n) == IF n = 0 THEN <<>> ELSE <<n % Base>> \o BNat(n \div Base)

RECURSIVE BInt(_)
BInt(a) == IF a = <<>> THEN 0 ELSE a[1] + Base * BInt(Tail(a))

RECURSIVE BTrim(_)
BTrim(a) == IF a = <<>> THEN a
            ELSE IF a[Len(a)] = 0 THEN BTrim(SubSeq(a, 1, Len(a) - 1)) ELSE a

RECURSIVE BAddC(_, _, _)
BAddC(a, b, c) ==
    IF a = <<>> /\ b = <<>> THEN (IF c = 0 THEN <<>> ELSE <<c>>)
    ELSE LET x == IF a = <<>> THEN 0 ELSE a[1]
             y == IF b = <<>> THEN 0 ELSE b[1]
             s == x + y + c
         IN  <<s % Base>> \o BAddC(IF a = <<>> THEN a ELSE Tail(a),
                                   IF b = <<>> THEN b ELSE Tail(b), s \div Base)

BAdd(a, b) == BAddC(a, b, 0)

\* a - b for a >= b.
RECURSIVE BSubC(_, _, _)
BSubC(a, b, c) ==
    IF a = <<>> THEN <<>>
    ELSE LET y == IF b = <<>> THEN 0 ELSE b[1]
             s == a[1] - y - c
         IN  <<s % Base>> \o BSubC(Tail(a), IF b = <<>> THEN b ELSE Tail(b),
                                   IF s < 0 THEN 1 ELSE 0)

BSub(a, b) == BTrim(BSubC(a, b, 0))

\* a >= b.
RECURSIVE BGeq(_, _)
BGeq(a, b) ==
    IF Len(a) # Len(b) THEN Len(a) > Len(b)
    ELSE IF a = <<>> THEN TRUE
    ELSE IF a[Len(a)] # b[Len(b)] THEN a[Len(a)] > b[Len(b)]
    ELSE BGeq(SubSeq(a, 1, Len(a) - 1), SubSeq(b, 1, Len(b) - 1))

RECURSIVE BMulSmallC(_, _, _)
BMulSmallC(a, k, c) ==
    IF a = <<>> THEN BNat(c)
    ELSE LET p == a[1] * k + c
         IN  <<p % Base>> \o BMulSmallC(Tail(a), k, p \div Base)

\* a * k for 0 <= k <= Base.
BMulSmall(a, k) == BTrim(BMulSmallC(a, k, 0))

RECURSIVE BMul(_, _)
BMul(a, b) == IF b = <<>> \/ a = <<>> THEN <<>>
              ELSE BAdd(BMulSmall(a, b[1]), <<0>> \o BMul(a, Tail(b)))

\* Quotient and remainder of a by d (0 < d <= Base), from the top limb down, r
\* being the remainder so far.
DivResult(q, r) == [q |-> q, r |-> r]
DivAppend(rest, digit) == DivResult(rest.q \o <<digit>>, rest.r)

RECURSIVE BDivSmallR(_, _, _)
BDivSmallR(a, d, r) ==
    IF a = <<>> THEN DivResult(<<>>, r)
    ELSE DivAppend(BDivSmallR(SubSeq(a, 1, Len(a) - 1), d, (r * Base + a[Len(a)]) % d),
                   (r * Base + a[Len(a)]) \div d)

DivTrim(x) == DivResult(BTrim(x.q), x.r)
BDivSmall(a, d) == DivTrim(BDivSmallR(a, d, 0))

BShl(a, k) == IF a = <<>> THEN a
              ELSE [i \in 1..(k \div LimbBits) |-> 0] \o BMulSmall(a, 2^(k % LimbBits))

\* a shifted right by k bits, and whether a nonzero bit was shifted out.
ShrResult(d, lo) == [q |-> d.q, sticky |-> d.r # 0 \/ \E i \in 1..Len(lo) : lo[i] # 0]
BShr(a, k) ==
    ShrResult(BDivSmall(SubSeq(a, k \div LimbBits + 1, Len(a)), 2^(k % LimbBits)),
              SubSeq(a, 1, IF k \div LimbBits < Len(a) THEN k \div LimbBits ELSE Len(a)))

RECURSIVE BitLenInt(_)
BitLenInt(n) == IF n = 0 THEN 0 ELSE 1 + BitLenInt(n \div 2)

BBitLen(a) == IF a = <<>> THEN 0 ELSE (Len(a) - 1) * LimbBits + BitLenInt(a[Len(a)])

BOdd(a) == a # <<>> /\ a[1] % 2 = 1

\* floor(r * 2^n / den) and the remainder, for r < den: one quotient bit at a
\* time, q being the quotient so far and r2 = 2 * r.
RECURSIVE BDivBit(_, _, _, _)
BDivBit(r2, den, n, q) ==
    IF BGeq(r2, den)
    THEN (IF n = 1 THEN DivResult(2 * q + 1, BSub(r2, den))
          ELSE BDivBit(BMulSmall(BSub(r2, den), 2), den, n - 1, 2 * q + 1))
    ELSE (IF n = 1 THEN DivResult(2 * q, r2)
          ELSE BDivBit(BMulSmall(r2, 2), den, n - 1, 2 * q))

\* The same, LimbBits bits at a time: limbs quotient limbs, most significant
\* first, d being the limb just divided out.
RECURSIVE BDivLimb(_, _, _, _)
BDivLimb(d, den, limbs, q) ==
    IF limbs = 1 THEN DivResult(BTrim(<<d.q>> \o q), d.r)
    ELSE BDivLimb(BDivBit(BMulSmall(d.r, 2), den, LimbBits, 0), den, limbs - 1,
                  <<d.q>> \o q)

BDivLimbs(r, den, limbs) ==
    BDivLimb(BDivBit(BMulSmall(r, 2), den, LimbBits, 0), den, limbs, <<>>)

(***************************************************************************)
(* Python float: a non-negative finite binary64 value m * 2^e, m = 0 or    *)
(* 2^52 <= m < 2^53.  (The values of this program are far from the         *)
(* overflow and subnormal ranges.)                                         *)
(***************************************************************************)
MantBits == 53
Float(m, e) == [m |-> m, e |-> e]
FZero == Float(<<>>, 0)

\* Round to nearest, ties to even, of (M + f) * 2^e with 0 <= f < 1 and
\* sticky = (f # 0); f # 0 only when M has more than MantBits bits.
\* r is the rounded significand: MantBits bits, or 2^MantBits.
FRoundCarry(r, e) ==
    IF BBitLen(r) > MantBits THEN Float(BDivSmall(r, 2).q, e + 1) ELSE Float(r, e)
\* q is M without the bits that are dropped, half the first bit dropped.
FRoundUp(q, half, sticky, e) ==
    FRoundCarry(IF half /\ (sticky \/ BOdd(q)) THEN BAdd(q, <<1>>) ELSE q, e)
\* g is M without the bits dropped after the first.
FRoundHalf(g, e, sticky) ==
    FRoundUp(BDivSmall(g.q, 2).q, BOdd(g.q), g.sticky \/ sticky, e)
\* L is the number of bits of M.
FRoundLen(M, e, sticky, L) ==
    IF L = 0 THEN FZero
    ELSE IF L <= MantBits THEN Float(BShl(M, MantBits - L), e - (MantBits - L))
    ELSE FRoundHalf(BShr(M, L - MantBits - 1), e + (L - MantBits), sticky)

FRound(M, e, sticky) == FRoundLen(M, e, sticky, BBitLen(M))

\* d is the quotient and the remainder of a division by a small number.
FRoundDiv(d, e) == FRound(d.q, e, d.r # 0)

DivBits == 75
\* a / b for integers a >= 0, 0 < b < Base: Python's int / int, and the value of a
\* decimal literal such as 0.70 = FDivInt(70, 100).
FDivInt(a, b) == FRoundDiv(BDivSmall(BShl(BNat(a), DivBits), b), -DivBits)

FInt(n) == FDivInt(n, 1)

FMul(x, y) == IF x.m = <<>> \/ y.m = <<>> THEN FZero
              ELSE FRound(BMul(x.m, y.m), x.e + y.e, FALSE)

\* x + y for x.e <= y.e.
FAddOrdered(x, y) == FRound(BAdd(x.m, BShl(y.m, y.e - x.e)), x.e, FALSE)
FAdd(x, y) == IF x.m = <<>> THEN y ELSE IF y.m = <<>> THEN x
              ELSE IF x.e <= y.e THEN FAddOrdered(x, y) ELSE FAddOrdered(y, x)

DivLimbs == 4
\* x / y for y > 0: the quotient of the significands is 1.f or 0.f, with
\* DivLimbs limbs of f.
FDivLeading(d, one, e) ==
    FRound(IF one THEN BAdd(d.q, BShl(<<1>>, DivLimbs * LimbBits)) ELSE d.q, e, d.r # <<>>)
FDiv(x, y) ==
    IF x.m = <<>> THEN FZero
    ELSE IF BGeq(x.m, y.m)
    THEN FDivLeading(BDivLimbs(BSub(x.m, y.m), y.m, DivLimbs), TRUE,
                     x.e - y.e - DivLimbs * LimbBits)
    ELSE FDivLeading(BDivLimbs(x.m, y.m, DivLimbs), FALSE,
                     x.e - y.e - DivLimbs * LimbBits)

\* x <= y.
FLeq(x, y) ==
    IF x.m = <<>> THEN TRUE ELSE IF y.m = <<>> THEN FALSE
    ELSE IF x.e # y.e THEN x.e < y.e ELSE BGeq(y.m, x.m)

\* The integer nearest to x * k (ties to even), 0 < k <= Base: the digits of
\* round(x, n) and of "%.nf" % x for k = 10^n, which Python takes from the exact
\* binary value of x.
\* twice is floor(2 * x * k), sticky whether 2 * x * k is not an integer.
NearestEven(twice, sticky) ==
    IF twice % 2 = 1 /\ (sticky \/ (twice \div 2) % 2 = 1)
    THEN twice \div 2 + 1 ELSE twice \div 2
NearestEvenShr(g) == NearestEven(BInt(g.q), g.sticky)
FRoundScaled(x, k) ==
    IF x.m = <<>> THEN 0
    ELSE IF x.e >= 0 THEN BInt(BShl(BMulSmall(x.m, k), x.e))
    ELSE NearestEvenShr(BShr(BMulSmall(x.m, k), -x.e - 1))

(***************************************************************************)
(* Python values                                                           *)
(***************************************************************************)
\* A raised ZeroDivisionError, as the value of the expression that raises it.
ZeroDivisionError == [raised |-> "ZeroDivisionError"]
IsRaised(v) == "raised" \in DOMAIN v

\* int / int
TrueDiv(a, b) == IF b = 0 THEN ZeroDivisionError ELSE FDivInt(a, b)
\* float * float, float + float: an operand that raised propagates.
Times(a, b) == IF IsRaised(a) THEN a ELSE IF IsRaised(b) THEN b ELSE FMul(a, b)
Plus(a, b) == IF IsRaised(a) THEN a ELSE IF IsRaised(b) THEN b ELSE FAdd(a, b)

\* The float literal with the decimal digits n / 100 (0.70 is Literal(70)).
Literal(n) == FDivInt(n, 100)

\* The literals 0.70, 0.30, 0.20, 0.10 and 100.
Lit070 == Literal(70)
Lit030 == Literal(30)
Lit020 == Literal(20)
Lit010 == Literal(10)
Lit100 == FInt(100)

\* round(v, 2) and round(v, 1), as integers of hundredths and of tenths.
Round2(v) == FRoundScaled(v, 100)
Round1(v) == FRoundScaled(v, 10)
\* f"{v:.0f}"
Format0f(v) == ToString(FRoundScaled(v, 1))
\* f"{v}" for a float v of n hundredths: the shortest digits that read back as v.
FormatFloat(n) ==
    ToString(n \div 100) \o "." \o
    (IF n % 10 = 0 THEN ToString((n % 100) \div 10)
     ELSE ToString((n % 100) \div 10) \o ToString(n % 10))

\* dict: the items in insertion order, each key once.
EmptyDict == <<>>
HasKey(d, k) == \E i \in 1..Len(d) : d[i].key = k
\* d[k] = v: a new key goes last, a present key keeps its place.
SetItem(d, k, v) ==
    IF HasKey(d, k)
    THEN [i \in 1..Len(d) |-> IF d[i].key = k THEN [key |-> k, value |-> v] ELSE d[i]]
    ELSE Append(d, [key |-> k, value |-> v])
\* " + ".join(parts)
RECURSIVE Join(_)
Join(parts) == IF parts = <<>> THEN ""
               ELSE IF Len(parts) = 1 THEN parts[1]
               ELSE parts[1] \o " + " \o Join(Tail(parts))

(***************************************************************************)
(* exam.assess: FeatureType, Feature, FeatureAssessment                    *)
(***************************************************************************)
CORE == "core"
DETAILS_IMPORTANT == "important detail"
DETAILS_ADDITIONAL == "additional detail"
FeatureType == {CORE, DETAILS_IMPORTANT, DETAILS_ADDITIONAL}

Feature(type, description) == [type |-> type, description |-> description]

\* Feature.weight_percentage with the weight 0.30 that
\* calculate_score_from_assessments gives to the important details.
weight_percentage_important_030(feature) ==
    IF feature.type = CORE THEN Lit070
    ELSE IF feature.type = DETAILS_IMPORTANT THEN Lit030
    ELSE Lit010

\* Feature.weight_percentage
weight_percentage(feature) ==
    IF feature.type = CORE THEN Lit070
    ELSE IF feature.type = DETAILS_IMPORTANT THEN Lit020
    ELSE Lit010
FeatureAssessment(satisfied, motivation) == [satisfied |-> satisfied, motivation |-> motivation]

\* sum(1 for f in assessments if f.type == t)
total(assessments, t) ==
    Cardinality({i \in 1..Len(assessments) : assessments[i].key.type = t})
\* The count with the test of the verdict inverted (... and not a.satisfied).
satisfied_inverted(assessments, t) ==
    Cardinality({i \in 1..Len(assessments) :
                    assessments[i].key.type = t /\ ~assessments[i].value.satisfied})

\* sum(1 for f, a in assessments.items() if f.type == t and a.satisfied)
satisfied(assessments, t) ==
    Cardinality({i \in 1..Len(assessments) :
                    assessments[i].key.type = t /\ assessments[i].value.satisfied})

(***************************************************************************)
(* calculate_score_from_assessments: 70% Core + 30% Important              *)
(***************************************************************************)
\* The core share without its guard on core_total.
core_percentage_unguarded(assessments) ==
    Times(TrueDiv(satisfied(assessments, CORE), total(assessments, CORE)), Lit070)

core_percentage(assessments) ==
    IF total(assessments, CORE) > 0
    THEN Times(TrueDiv(satisfied(assessments, CORE), total(assessments, CORE)), Lit070)
    ELSE FZero

\* The important share with the default of the 70/20/10 scheme.
important_percentage_stale_default(assessments) ==
    IF total(assessments, DETAILS_IMPORTANT) > 0
    THEN Times(TrueDiv(satisfied(assessments, DETAILS_IMPORTANT),
                       total(assessments, DETAILS_IMPORTANT)), Lit030)
    ELSE Lit020

\* The important share with no credit for an empty category.
important_percentage_no_default(assessments) ==
    IF total(assessments, DETAILS_IMPORTANT) > 0
    THEN Times(TrueDiv(satisfied(assessments, DETAILS_IMPORTANT),
                       total(assessments, DETAILS_IMPORTANT)), Lit030)
    ELSE FZero

\* The important share with its guard on important_satisfied instead of
\* important_total.
important_percentage_guard_satisfied(assessments) ==
    IF satisfied(assessments, DETAILS_IMPORTANT) > 0
    THEN Times(TrueDiv(satisfied(assessments, DETAILS_IMPORTANT),
                       total(assessments, DETAILS_IMPORTANT)), Lit030)
    ELSE Lit030

important_percentage(assessments) ==
    IF total(assessments, DETAILS_IMPORTANT) > 0
    THEN Times(TrueDiv(satisfied(assessments, DETAILS_IMPORTANT),
                       total(assessments, DETAILS_IMPORTANT)), Lit030)
    ELSE Lit030

\* The final percentage with the additional share of the 70/20/10 scheme added.
final_percentage_with_additional(core_p, important_p) ==
    Plus(Plus(core_p, important_p), Lit010)

\* final_percentage = core_percentage + important_percentage
final_percentage(core_p, important_p) == Plus(core_p, important_p)

\* The percentage of the statistics as a fraction, without the factor 100.
stats_percentage_fraction(assessments, t) ==
    IF total(assessments, t) > 0
    THEN Round1(FDivInt(satisfied(assessments, t), total(assessments, t)))
    ELSE 0

\* The percentage of the statistics of one category, in tenths.
RoundPercentage(p) == IF IsRaised(p) THEN p ELSE Round1(p)
stats_percentage(assessments, t) ==
    IF total(assessments, t) > 0
    THEN RoundPercentage(Times(TrueDiv(satisfied(assessments, t), total(assessments, t)),
                               Lit100))
    ELSE 0

\* One clause of the breakdown, "Name: s/t (raw% → weighted%)", or none for an
\* empty category; share is the number the percentage is divided by.
score_breakdown_part(assessments, name, t, percentage, share) ==
    IF total(assessments, t) > 0
    THEN << name \o ": " \o ToString(satisfied(assessments, t)) \o "/"
            \o ToString(total(assessments, t)) \o " ("
            \o Format0f(FMul(FDiv(percentage, share), Lit100)) \o "% → "
            \o Format0f(FMul(percentage, Lit100)) \o "%)" >>
    ELSE <<>>

\* The breakdown with its clauses in the order the categories are met in the
\* mapping.
score_breakdown_in_order(assessments, max_score, score, core_p, important_p, final_p) ==
    LET first(t) == CHOOSE i \in 1..Len(assessments) :
                        /\ assessments[i].key.type = t
                        /\ \A j \in 1..(i - 1) : assessments[j].key.type # t
        core == score_breakdown_part(assessments, "Core", CORE, core_p, Lit070)
        important == score_breakdown_part(assessments, "Important", DETAILS_IMPORTANT,
                                          important_p, Lit020)
    IN  Join(IF /\ core # <<>> /\ important # <<>>
                /\ first(DETAILS_IMPORTANT) < first(CORE)
             THEN important \o core ELSE core \o important)
        \o " = " \o Format0f(FMul(final_p, Lit100)) \o "% of "
        \o FormatFloat(max_score) \o " = " \o FormatFloat(score)

score_breakdown(assessments, max_score, score, core_p, important_p, final_p) ==
    Join(score_breakdown_part(assessments, "Core", CORE, core_p, Lit070)
         \o score_breakdown_part(assessments, "Important", DETAILS_IMPORTANT,
                                 important_p, Lit020))
    \o " = " \o Format0f(FMul(final_p, Lit100)) \o "% of "
    \o FormatFloat(max_score) \o " = " \o FormatFloat(score)

score_stats(assessments) ==
    [core |-> [total |-> total(assessments, CORE),
               satisfied |-> satisfied(assessments, CORE),
               percentage |-> stats_percentage(assessments, CORE)],
     details_important |->
              [total |-> total(assessments, DETAILS_IMPORTANT),
               satisfied |-> satisfied(assessments, DETAILS_IMPORTANT),
               percentage |-> stats_percentage(assessments, DETAILS_IMPORTANT)]]

\* return score, breakdown, stats
score_return(assessments, max_score, score, core_p, important_p, final_p) ==
    [score |-> score,
     breakdown |-> score_breakdown(assessments, max_score, score, core_p, important_p,
                                   final_p),
     stats |-> score_stats(assessments)]

\* The score rounded to one decimal: round(final_percentage * max_score, 1).
score_final_one_decimal(assessments, max_score, core_p, important_p, final_p) ==
    IF IsRaised(final_p) THEN final_p
    ELSE score_return(assessments, max_score,
                      10 * Round1(FMul(final_p, Literal(max_score))),
                      core_p, important_p, final_p)

\* score = round(final_percentage * max_score, 2), unless computing
\* final_percentage raised.
score_final(assessments, max_score, core_p, important_p, final_p) ==
    IF IsRaised(final_p) THEN final_p
    ELSE score_return(assessments, max_score, Round2(FMul(final_p, Literal(max_score))),
                      core_p, important_p, final_p)

\* The function from the point where core_percentage and important_percentage
\* are known.
score_percentages(assessments, max_score, core_p, important_p) ==
    score_final(assessments, max_score, core_p, important_p,
                final_percentage(core_p, important_p))

\* The function without its early return for an empty mapping.
calculate_score_from_assessments_unguarded(assessments, max_score) ==
    score_percentages(assessments, max_score,
                      core_percentage(assessments), important_percentage(assessments))

\* max_score and the returned score are in hundredths.  The result is the tuple
\* (score, breakdown, stats), or the exception the call raises.
calculate_score_from_assessments(assessments, max_score) ==
    IF assessments = EmptyDict
    THEN [score |-> 0, breakdown |-> "No features assessed", stats |-> EmptyDict]
    ELSE score_percentages(assessments, max_score,
                           core_percentage(assessments), important_percentage(assessments))

(***************************************************************************)
(* AnswerAssessment.calculate_score: 70% Core + 20% Important + 10%        *)
(* Additional                                                              *)
(***************************************************************************)
aa_core_percentage(assessments) ==
    IF total(assessments, CORE) > 0
    THEN Times(TrueDiv(satisfied(assessments, CORE), total(assessments, CORE)), Lit070)
    ELSE FZero

aa_important_percentage(assessments) ==
    IF total(assessments, DETAILS_IMPORTANT) > 0
    THEN Times(TrueDiv(satisfied(assessments, DETAILS_IMPORTANT),
                       total(assessments, DETAILS_IMPORTANT)), Lit020)
    ELSE Lit020


\* The additional share without the default for an empty category.
aa_additional_percentage_no_default(assessments) ==
    IF total(assessments, DETAILS_ADDITIONAL) > 0
    THEN Times(TrueDiv(satisfied(assessments, DETAILS_ADDITIONAL),
                       total(assessments, DETAILS_ADDITIONAL)), Lit010)
    ELSE FZero
aa_additional_percentage(assessments) ==
    IF total(assessments, DETAILS_ADDITIONAL) > 0
    THEN Times(TrueDiv(satisfied(assessments, DETAILS_ADDITIONAL),
                       total(assessments, DETAILS_ADDITIONAL)), Lit010)
    ELSE Lit010

\* final_percentage = core_percentage + important_percentage + additional_percentage
aa_final_percentage(core_p, important_p, additional_p) ==
    Plus(Plus(core_p, important_p), additional_p)

\* One clause of the breakdown: "Name: s/t (raw% → weighted%)", or none for an
\* empty category.
aa_breakdown_part(assessments, name, t, percentage, share) ==
    IF total(assessments, t) > 0
    THEN << name \o ": " \o ToString(satisfied(assessments, t)) \o "/"
            \o ToString(total(assessments, t)) \o " ("
            \o Format0f(FMul(FDiv(percentage, share), Lit100)) \o "% → "
            \o Format0f(FMul(percentage, Lit100)) \o "%)" >>
    ELSE <<>>

aa_breakdown(assessments, max_score, score, core_p, important_p, additional_p, final_p) ==
    Join(aa_breakdown_part(assessments, "Core", CORE, core_p, Lit070)
         \o aa_breakdown_part(assessments, "Important", DETAILS_IMPORTANT, important_p, Lit020)
         \o aa_breakdown_part(assessments, "Additional", DETAILS_ADDITIONAL, additional_p,
                              Lit010))
    \o " = " \o Format0f(FMul(final_p, Lit100)) \o "% of "
    \o FormatFloat(max_score) \o " = " \o FormatFloat(score)

\* return score, breakdown
aa_return(assessments, max_score, score, core_p, important_p, additional_p, final_p) ==
    [score |-> score,
     breakdown |-> aa_breakdown(assessments, max_score, score, core_p, important_p,
                                additional_p, final_p)]

aa_final(assessments, max_score, core_p, important_p, additional_p, final_p) ==
    IF IsRaised(final_p) THEN final_p
    ELSE aa_return(assessments, max_score, Round2(FMul(final_p, Literal(max_score))),
                   core_p, important_p, additional_p, final_p)

\* The method from the point where the three percentages are known.
aa_percentages(assessments, max_score, core_p, important_p, additional_p) ==
    aa_final(assessments, max_score, core_p, important_p, additional_p,
             aa_final_percentage(core_p, important_p, additional_p))

\* self.assessment is the mapping; the result is the tuple (score, breakdown).
calculate_score(assessments, max_score) ==
    IF assessments = EmptyDict
    THEN [score |-> 0, breakdown |-> "No features assessed"]
    ELSE aa_percentages(assessments, max_score, aa_core_percentage(assessments),
                        aa_important_percentage(assessments),
                        aa_additional_percentage(assessments))

(***************************************************************************)
(* enumerate_features, and the loop that assesses every feature of a       *)
(* checklist (an Answer with its core and details_important items)         *)
(***************************************************************************)
None == <<>>
Answer(core, details_important) == [core |-> core, details_important |-> details_important]


\* The generator with the index starting again at 0 for the important details.
enumerate_features_restart(answer) ==
    IF answer = None THEN <<>>
    ELSE [i \in 1..(Len(answer.core) + Len(answer.details_important)) |->
            IF i <= Len(answer.core)
            THEN <<i - 1, Feature(CORE, answer.core[i])>>
            ELSE <<i - 1 - Len(answer.core),
                   Feature(DETAILS_IMPORTANT,
                           answer.details_important[i - Len(answer.core)])>>]
\* The (index, Feature) pairs in the order they are yielded.
enumerate_features(answer) ==
    IF answer = None THEN <<>>
    ELSE [i \in 1..(Len(answer.core) + Len(answer.details_important)) |->
            IF i <= Len(answer.core)
            THEN <<i - 1, Feature(CORE, answer.core[i])>>
            ELSE <<i - 1, Feature(DETAILS_IMPORTANT,
                                  answer.details_important[i - Len(answer.core)])>>]

\* for index, feature in enumerate_features(checklist): dict[feature] = result,
\* where results[i] is the oracle's FeatureAssessment of the i-th feature yielded.
RECURSIVE assess_features(_, _, _)
assess_features(features, results, dict) ==
    IF features = <<>> THEN dict
    ELSE assess_features(Tail(features), Tail(results),
                         SetItem(dict, features[1][2], results[1]))

(***************************************************************************)
(* Bounds                                                                  *)
(***************************************************************************)
\* The features that may be assessed: two core items, one important detail and
\* one additional detail.
FeaturePool == {Feature(CORE, "d1"), Feature(CORE, "d2"),
                Feature(DETAILS_IMPORTANT, "d1"), Feature(DETAILS_ADDITIONAL, "d1")}
\* The most entries of the mapping.
MaxFeatures == 3
\* The oracle's verdicts.
Assessments == {FeatureAssessment(s, "motivation") : s \in BOOLEAN}
\* The question weights, in hundredths: 0.0, 0.33, 2.5 and 3.0.
Weights == {0, 33, 250, 300}
\* The checklist of the worked example: ScenarioCore core items and
\* ScenarioImportant important details.
ScenarioCore == 4
ScenarioImportant == 2
\* The weight of its question: 3.0.
ScenarioWeights == {300}
\* The most scoring calls on one state of the mapping.
MaxCalls == 3
\* The most calls of load_student_answer.
MaxLoads == 3
\* The most calls of pretty_print and total_score.
MaxPrints == 2
ScenarioAnswer == Answer([i \in 1..ScenarioCore |-> "core item " \o ToString(i)],
                         [i \in 1..ScenarioImportant |-> "detail " \o ToString(i)])

(***************************************************************************)
(* The operations                                                          *)
(***************************************************************************)
\* No exam is loaded and no tool is running.
NoAnswers ==
    /\ loaded_answers = EmptyDict
    /\ answer_file = None
    /\ reads = 0
    /\ exam_dir = None
NoGraph ==
    /\ node = "idle"
    /\ next_action = ""
    /\ students_to_assess = <<>>
    /\ current_student_code = ""
    /\ state_assessments = <<>>
    /\ state_result = ""
    /\ state_checklists = {}
    /\ invoked = <<>>
NoTools ==
    /\ NoAnswers
    /\ NoGraph
    /\ tool_intervals = <<>>
    /\ answers = <<>>
NoBatch ==
    /\ NoTools
    /\ batch_pc = "idle"
    /\ responses_data = <<>>
    /\ max_students = None
    /\ students = <<>>
    /\ idx = 0
    /\ batch_results = <<>>
    /\ summary = None
NotCalled ==
    /\ pc = "idle"
    /\ student_data = None
    /\ question = 0
    /\ pending = <<>>
    /\ question_assessments = <<>>
    /\ total_score = FZero
    /\ total_max_score = FZero
    /\ result = None
    /\ trace = <<>>
    /\ feature_assessments_list = <<>>
NoStudent == student_email = "" /\ NotCalled
NoServer ==
    /\ checklist = None
    /\ loaded_exams = None
    /\ loaded_checklists = EmptyDict
    /\ NoStudent
    /\ NoBatch

Init ==
    /\ assessment = EmptyDict
    /\ weight \in Weights
    /\ ret = None
    /\ returned = <<>>
    /\ NoServer

\* TestAssessment.add_assessment: instance.answers[question].assessment[feature]
\* = assessment (also feature_assessments_dict[feature] = result).  Returns None.
add_assessment(feature, a) ==
    /\ HasKey(assessment, feature) \/ Len(assessment) < MaxFeatures
    /\ assessment' = SetItem(assessment, feature, a)
    /\ ret' = None
    /\ returned' = <<>>
    /\ UNCHANGED <<weight, checklist, studentVars, batchVars, toolVars>>

\* The record of a call and of what it returned (or raised).
Returned(call, value) == [call |-> call, value |-> value]

\* score, breakdown, stats = calculate_score_from_assessments(dict, question["score"])
score_from_assessments ==
    /\ Len(returned) < MaxCalls
    /\ ret' = Returned("calculate_score_from_assessments",
                       calculate_score_from_assessments(assessment, weight))
    /\ returned' = Append(returned, ret')
    /\ UNCHANGED <<assessment, weight, checklist, studentVars, batchVars, toolVars>>

\* The method consuming the mapping while it counts (popitem).
score_answer_consuming ==
    /\ Len(returned) < MaxCalls
    /\ ret' = Returned("calculate_score", calculate_score(assessment, weight))
    /\ returned' = Append(returned, ret')
    /\ assessment' = EmptyDict
    /\ UNCHANGED <<weight, checklist, studentVars, batchVars, toolVars>>

\* score, _ = answer_assessment.calculate_score(question.weight)
score_answer ==
    /\ Len(returned) < MaxCalls
    /\ ret' = Returned("calculate_score", calculate_score(assessment, weight))
    /\ returned' = Append(returned, ret')
    /\ UNCHANGED <<assessment, weight, checklist, studentVars, batchVars, toolVars>>

\* The next answer: AnswerAssessment(answer=answer, assessment={}) /
\* feature_assessments_dict = {} for a question of weight w.
new_answer(w) ==
    /\ assessment' = EmptyDict
    /\ weight' = w
    /\ ret' = None
    /\ returned' = <<>>
    /\ UNCHANGED <<checklist, studentVars, batchVars, toolVars>>

Next ==
    \/ \E f \in FeaturePool, a \in Assessments : add_assessment(f, a)
    \/ score_from_assessments
    \/ score_answer
    \/ \E w \in Weights : new_answer(w)

Spec == Init /\ [][Next]_vars

\* The worked example: every feature of ScenarioAnswer has been assessed, with any
\* verdicts, and the answer is scored.
InitScenario ==
    /\ \E verdicts \in [1..(ScenarioCore + ScenarioImportant) -> Assessments] :
          assessment = assess_features(enumerate_features(ScenarioAnswer), verdicts, EmptyDict)
    /\ weight \in ScenarioWeights
    /\ ret = None
    /\ returned = <<>>
    /\ NoServer

NextScenario ==
    \/ score_from_assessments
    \/ score_answer

SpecScenario == InitScenario /\ [][NextScenario]_vars

(***************************************************************************)
(* Properties of calculate_score_from_assessments                          *)
(***************************************************************************)
\* The last operation was a call of calculate_score_from_assessments on the
\* mapping and the weight of the state.
Scored == ret # None /\ ret.call = "calculate_score_from_assessments"
\* ... and it was the first scoring call on this mapping.
FirstScored == Scored /\ Len(returned) = 1

NonEmpty == assessment # EmptyDict
AllSatisfied == \A i \in 1..Len(assessment) : assessment[i].value.satisfied
NoneSatisfied == \A i \in 1..Len(assessment) : ~assessment[i].value.satisfied

\* C1: the score returned by calculate_score_from_assessments is at least 0 and
\* at most max_score.
C1_ScoreWithinBounds ==
    Scored => 0 <= ret.value.score /\ ret.value.score <= weight

\* A call that returned the whole of a positive max_score.
C1_Witness ==
    Scored /\ NonEmpty /\ weight = 250 /\ ret.value.score = weight

WithFeature(t, s) ==
    Append(assessment, [key |-> Feature(t, "one more"),
                        value |-> FeatureAssessment(s, "motivation")])

Flip(i) == [assessment EXCEPT ![i].value.satisfied = TRUE]

\* C4: changing one assessment from unsatisfied to satisfied never decreases the
\* score, whatever the category of its feature.
C4_Monotone ==
    FirstScored =>
        \A i \in 1..Len(assessment) :
            ~assessment[i].value.satisfied =>
                calculate_score_from_assessments(Flip(i), weight).score >= ret.value.score

\* A scored mapping with an unsatisfied feature whose change raises the score.
C4_Witness ==
    /\ FirstScored
    /\ \E i \in 1..Len(assessment) :
          /\ ~assessment[i].value.satisfied
          /\ calculate_score_from_assessments(Flip(i), weight).score > ret.value.score

\* C5: with core and important features present and no feature satisfied, the
\* score is 0.0.
C5_ZeroCredit ==
    ( /\ Scored /\ NoneSatisfied
      /\ total(assessment, CORE) > 0
      /\ total(assessment, DETAILS_IMPORTANT) > 0 ) => ret.value.score = 0

\* A feature of every category, none satisfied, scored 0.0 of 3.0.
C5_Witness ==
    /\ Scored /\ NoneSatisfied /\ weight = 300
    /\ \A t \in FeatureType : total(assessment, t) > 0
    /\ ret.value.score = 0

\* C6: for an empty mapping the function returns (0.0, "No features assessed",
\* {}), whatever max_score.
C6_EmptyMapping ==
    (Scored /\ assessment = EmptyDict) =>
        ret.value = [score |-> 0, breakdown |-> "No features assessed", stats |-> EmptyDict]

\* The empty mapping scored for a question of weight 3.0.
C6_Witness ==
    /\ Scored /\ assessment = EmptyDict /\ weight = 300
    /\ ret.value.breakdown = "No features assessed"

\* The score is the value of (cs/ct * 0.70 + is/it * 0.30) * max_score to the
\* nearest cent (either neighbour at a tie).
NearestCent(score, cs, ct, is, it, max_score) ==
    10 * ct * it * score - (7 * cs * it + 3 * is * ct) * max_score
        \in (-5 * ct * it)..(5 * ct * it)

\* Core 3/4 and important 1/2 for a question of weight 3.0.
WorkedExample ==
    /\ satisfied(assessment, CORE) = 3 /\ total(assessment, CORE) = 4
    /\ satisfied(assessment, DETAILS_IMPORTANT) = 1
    /\ total(assessment, DETAILS_IMPORTANT) = 2
    /\ weight = 300

\* C7 as stated: core 3/4, important 1/2 and max_score 3.0 give 2.03.
C7_ExampleGives203 ==
    (Scored /\ WorkedExample) => ret.value.score = 203

\* C7 as amended: with core and important features present the score is
\* (cs/ct * 0.70 + is/it * 0.30) * max_score to the nearest cent, as the
\* floating-point product rounds; core 3/4, important 1/2 and max_score 3.0 give
\* 2.02.
C7_FormulaGives202 ==
    ( /\ Scored
      /\ total(assessment, CORE) > 0
      /\ total(assessment, DETAILS_IMPORTANT) > 0 ) =>
        /\ NearestCent(ret.value.score,
                       satisfied(assessment, CORE), total(assessment, CORE),
                       satisfied(assessment, DETAILS_IMPORTANT),
                       total(assessment, DETAILS_IMPORTANT), weight)
        /\ WorkedExample => ret.value.score = 202

\* The worked example, scored 2.02.
C7_Witness ==
    Scored /\ WorkedExample /\ ret.value.score = 202

\* C8: the function returns a (score, breakdown, stats) result and raises
\* nothing, whatever the mapping.
C8_Total ==
    Scored => /\ ~IsRaised(ret.value)
              /\ DOMAIN ret.value = {"score", "breakdown", "stats"}

\* A mapping with additional details only, scored without an exception.
C8_Witness ==
    /\ Scored /\ NonEmpty
    /\ total(assessment, CORE) = 0
    /\ total(assessment, DETAILS_IMPORTANT) = 0
    /\ DOMAIN ret.value = {"score", "breakdown", "stats"}

\* The mapping with its i-th and (i+1)-th entries inserted in the other order.
Swap(i) ==
    [j \in 1..Len(assessment) |->
        IF j = i THEN assessment[i + 1]
        ELSE IF j = i + 1 THEN assessment[i] ELSE assessment[j]]

\* C9: the calls of calculate_score_from_assessments on one mapping and max_score
\* return the same score, breakdown and statistics, whatever calls came in
\* between and in whatever order the entries were inserted.
C9_Deterministic ==
    /\ \A i, j \in 1..Len(returned) :
          ( /\ returned[i].call = "calculate_score_from_assessments"
            /\ returned[j].call = "calculate_score_from_assessments" ) =>
              returned[i].value = returned[j].value
    /\ FirstScored =>
          \A i \in 1..(Len(assessment) - 1) :
              calculate_score_from_assessments(Swap(i), weight) = ret.value

\* Two calls with a call of the method in between, on a mapping whose important
\* detail was inserted before its core feature.
C9_Witness ==
    /\ Len(returned) = 3
    /\ returned[1].call = "calculate_score_from_assessments"
    /\ returned[2].call = "calculate_score"
    /\ returned[3].call = "calculate_score_from_assessments"
    /\ Len(assessment) >= 2
    /\ assessment[1].key.type = DETAILS_IMPORTANT
    /\ assessment[2].key.type = CORE

\* C10: a scoring call leaves the mapping, its features and assessments and the
\* weight as they were, leaves the results of the earlier calls as they were, and
\* returns what the earlier calls of the same function returned.
C10_NoSideEffects ==
    [][Len(returned') > Len(returned) =>
          /\ assessment' = assessment
          /\ weight' = weight
          /\ SubSeq(returned', 1, Len(returned)) = returned
          /\ \A i \in 1..Len(returned) :
                returned[i].call = ret'.call => returned[i].value = ret'.value]_vars

\* Both scoring functions have been called on a mapping that is still there.
C10_Witness ==
    /\ Len(returned) >= 2
    /\ returned[1].call # returned[2].call
    /\ Len(assessment) = MaxFeatures

(***************************************************************************)
(* Properties of the statistics and of the breakdown                       *)
(***************************************************************************)
\* The number of features of category t in the mapping, and the number of them
\* that are satisfied.
Count(t) == Cardinality({i \in 1..Len(assessment) : assessment[i].key.type = t})
Credited(t) ==
    Cardinality({i \in 1..Len(assessment) :
                    assessment[i].key.type = t /\ assessment[i].value.satisfied})

\* p tenths is s / n * 100 rounded to one decimal (either neighbour at a tie), 0
\* for n = 0.
IsPercentage(p, s, n) ==
    IF n = 0 THEN p = 0
    ELSE 2 * (n * p - 1000 * s) \in (-n)..n

\* The entry of the statistics for category t has the fields total, satisfied
\* and percentage, with the counts of the mapping.
IsStatsOf(entry, t) ==
    /\ DOMAIN entry = {"total", "satisfied", "percentage"}
    /\ entry.total = Count(t)
    /\ entry.satisfied = Credited(t)
    /\ IsPercentage(entry.percentage, Credited(t), Count(t))

ClaimedClause(name, t, contribution) ==
    IF Count(t) > 0
    THEN << name \o ": " \o ToString(Credited(t)) \o "/" \o ToString(Count(t)) \o " ("
            \o Format0f(FMul(FDivInt(Credited(t), Count(t)), Lit100)) \o "% → "
            \o Format0f(FMul(contribution, Lit100)) \o "%)" >>
    ELSE <<>>

\* The breakdown made of these clauses and of the tail the function writes.
ClaimedBreakdown ==
    Join(ClaimedClause("Core", CORE, core_percentage(assessment))
         \o ClaimedClause("Important", DETAILS_IMPORTANT, important_percentage(assessment)))
    \o " = "
    \o Format0f(FMul(final_percentage(core_percentage(assessment),
                                      important_percentage(assessment)), Lit100))
    \o "% of " \o FormatFloat(weight) \o " = " \o FormatFloat(ret.value.score)

\* C12: the breakdown of calculate_score_from_assessments has one clause per
\* non-empty category, whose raw percent is creditedCount / total * 100 (between 0
\* and 100) and whose weighted percent is the contribution of the category to the
\* final fraction times 100.
C12_BreakdownClauses ==
    (Scored /\ NonEmpty) => ret.value.breakdown = ClaimedBreakdown

(***************************************************************************)
(* Properties of the weights                                               *)
(***************************************************************************)
\* The last call was AnswerAssessment.calculate_score, the scoring of exam.assess.
ScoredAnswer == ret # None /\ ret.call = "calculate_score"

\* The number of satisfied features of the mapping, whatever their category.
CreditedItems ==
    Cardinality({i \in 1..Len(assessment) : assessment[i].value.satisfied})

\* C17: the scoring of exam.assess applies the should/shouldnt rule, final
\* fraction = max(0, satisfiedShould / totalShould - 0.15 per violated shouldnt
\* item): with the features of the mapping as the should items and no shouldnt
\* item, the score is satisfied / total of max_score, to the nearest cent.
C17_ShouldRule ==
    (ScoredAnswer /\ NonEmpty) =>
        2 * (ret.value.score * Len(assessment) - CreditedItems * weight)
            \in (-Len(assessment))..Len(assessment)

\* sum(Feature(t, "").weight_percentage for t in FeatureType), in the order of
\* the members.
WeightPercentageSum ==
    FAdd(FAdd(FAdd(FZero, weight_percentage(Feature(CORE, ""))),
              weight_percentage(Feature(DETAILS_IMPORTANT, ""))),
         weight_percentage(Feature(DETAILS_ADDITIONAL, "")))

\* The weights the two functions apply: the share of each category of a mapping
\* in which every category has a feature and every feature is satisfied.
EveryCategoryCredited ==
    /\ AllSatisfied
    /\ \A t \in FeatureType : Count(t) > 0
AppliedSum ==
    final_percentage(core_percentage(assessment), important_percentage(assessment))
AppliedSumAnswer ==
    aa_final_percentage(aa_core_percentage(assessment), aa_important_percentage(assessment),
                        aa_additional_percentage(assessment))

Descriptions == {"d1", "d2"}
MaxItems == 2
Items == UNION {[1..n -> Descriptions] : n \in 0..MaxItems}
\* The checklists: any items, and no checklist.
Checklists == {Answer(c, d) : c \in Items, d \in Items} \cup {None}

InitEnumerate ==
    /\ checklist \in Checklists
    /\ assessment = EmptyDict
    /\ weight = 0
    /\ ret = None
    /\ returned = <<>>
    /\ loaded_exams = None
    /\ loaded_checklists = EmptyDict
    /\ NoStudent
    /\ NoBatch

\* for index, feature in enumerate_features(checklist): the pairs it yields.
iterate_features ==
    /\ Len(returned) < MaxCalls
    /\ ret' = Returned("enumerate_features", enumerate_features(checklist))
    /\ returned' = Append(returned, ret')
    /\ UNCHANGED <<assessment, weight, checklist, studentVars, batchVars, toolVars>>

\* Another checklist is at hand.
new_checklist(c) ==
    /\ checklist' = c
    /\ ret' = None
    /\ returned' = <<>>
    /\ UNCHANGED <<assessment, weight, studentVars, batchVars, toolVars>>

NextEnumerate ==
    \/ iterate_features
    \/ \E c \in Checklists : new_checklist(c)

SpecEnumerate == InitEnumerate /\ [][NextEnumerate]_vars

Enumerated == ret # None /\ ret.call = "enumerate_features"

\* C16: enumerate_features yields pairs (index, Feature) with the indices 0, 1,
\* 2, ... without gaps, the core items first in the order of the checklist, then
\* the important details in the order of the checklist; every iteration over the
\* same checklist yields the same pairs, and no checklist yields nothing.
C16_EnumerationOrder ==
    Enumerated =>
        /\ checklist = None => ret.value = <<>>
        /\ checklist # None =>
              /\ Len(ret.value) = Len(checklist.core) + Len(checklist.details_important)
              /\ \A i \in 1..Len(ret.value) : ret.value[i][1] = i - 1
              /\ \A i \in 1..Len(checklist.core) :
                    ret.value[i][2] = Feature(CORE, checklist.core[i])
              /\ \A i \in 1..Len(checklist.details_important) :
                    ret.value[Len(checklist.core) + i][2]
                        = Feature(DETAILS_IMPORTANT, checklist.details_important[i])
        /\ \A k \in 1..Len(returned) : returned[k].value = ret.value

\* A checklist of two core items and two important details has been iterated
\* twice.
C16_Witness ==
    /\ Enumerated /\ Len(returned) >= 2
    /\ checklist # None
    /\ checklist.core = <<"d2", "d1">> /\ checklist.details_important = <<"d1", "d2">>
    /\ ret.value[4] = <<3, Feature(DETAILS_IMPORTANT, "d2")>>

(***************************************************************************)
(* Python str: the methods assess_student_exam calls on an email           *)
(***************************************************************************)
Uppercase == "ABCDEFGHIJKLMNOPQRSTUVWXYZ"
Lowercase == "abcdefghijklmnopqrstuvwxyz"
\* str.lower() of one character.
lower_char(c) ==
    IF \E i \in 1..Len(Uppercase) : SubSeq(Uppercase, i, i) = c
    THEN SubSeq(Lowercase, CHOOSE i \in 1..Len(Uppercase) : SubSeq(Uppercase, i, i) = c,
                CHOOSE i \in 1..Len(Uppercase) : SubSeq(Uppercase, i, i) = c)
    ELSE c
\* str.lower()
RECURSIVE lower(_)
lower(str) == IF str = "" THEN "" ELSE lower_char(SubSeq(str, 1, 1)) \o lower(Tail(str))
\* str.startswith(prefix)
startswith(str, prefix) ==
    Len(prefix) <= Len(str) /\ SubSeq(str, 1, Len(prefix)) = prefix
\* str.rstrip(c) and str.lstrip(c) for one character c
RECURSIVE rstrip(_, _)
rstrip(str, c) ==
    IF str # "" /\ SubSeq(str, Len(str), Len(str)) = c
    THEN rstrip(SubSeq(str, 1, Len(str) - 1), c) ELSE str
RECURSIVE lstrip(_, _)
lstrip(str, c) ==
    IF str # "" /\ SubSeq(str, 1, 1) = c THEN lstrip(Tail(str), c) ELSE str
\* str.strip(), the white space being blanks
strip(str) == lstrip(rstrip(str, " "), " ")

(***************************************************************************)
(* exam.mcp: assess_student_exam                                           *)
(***************************************************************************)
\* One question and one student of a loaded exam (load_exam_from_yaml); responses
\* is the set of the keys of the student's responses, score is in hundredths.
Question(number, id, score) == [number |-> number, id |-> id, score |-> score]
Student(email, responses) == [email |-> email, responses |-> responses]
Exam(questions, studs) == [questions |-> questions, students |-> studs]

\* The students and the questions of self.context.loaded_exams.values().
exam_students == IF loaded_exams = None THEN <<>> ELSE loaded_exams.students
exam_questions == IF loaded_exams = None THEN <<>> ELSE loaded_exams.questions

\* student_email_clean = student_email.rstrip('.').strip()
student_email_clean(email) == strip(rstrip(email, "."))

\* The least length of a query that matches as a prefix.
MinPrefix == 10
\* The condition of the flexible match.
matches(full_email, clean) ==
    \/ lower(full_email) = lower(clean)
    \/ /\ Len(clean) >= MinPrefix
       /\ startswith(lower(full_email), lower(clean))
\* The student the loops stop at: the first one in load order that matches, None
\* if there is none.
find_student(studs, clean) ==
    IF \E i \in 1..Len(studs) : matches(studs[i].email, clean)
    THEN studs[CHOOSE i \in 1..Len(studs) :
                  /\ matches(studs[i].email, clean)
                  /\ \A j \in 1..(i - 1) : ~matches(studs[j].email, clean)]
    ELSE None

\* json.dumps({"error": f"Student not found: '{student_email_clean}'", ...})
student_not_found(clean) ==
    [error |-> "Student not found: '" \o clean \o "'",
     searched_for |-> clean,
     num_loaded_students |-> Len(exam_students)]

\* The locals as the call starts to assess the responses.
start_assessing ==
    /\ question' = 1
    /\ pending' = <<>>
    /\ question_assessments' = <<>>
    /\ total_score' = FZero
    /\ total_max_score' = FZero
    /\ trace' = <<>>
    /\ feature_assessments_list' = <<>>

\* The call up to the loop over the questions: the student is looked up.
matched(found, clean) ==
    /\ student_data' = found
    /\ IF found = None
       THEN pc' = "returned" /\ result' = student_not_found(clean)
       ELSE pc' = "question" /\ result' = None

called(email) ==
    /\ pc = "idle"
    /\ student_email' = email
    /\ matched(find_student(exam_students, student_email_clean(email)),
               student_email_clean(email))
    /\ start_assessing
    /\ UNCHANGED <<scoringVars, checklist, loaded_exams, loaded_checklists>>

\* The tool called by the client with the email student_email.
assess_student_exam ==
    /\ batch_pc = "idle" /\ node = "idle"
    /\ called(student_email)
    /\ UNCHANGED <<batchVars, toolVars>>

\* question_num = int(question["number"].replace("Question ", ""))
question_num(q) ==
    CHOOSE n \in 0..9 : q.number = "Question " \o ToString(n)

\* The question at hand.
this_question == exam_questions[question]
in_loop == pc = "question" /\ question <= Len(exam_questions)
has_response == question_num(this_question) \in student_data.responses

\* The record of a question that is not assessed.
not_assessed(q, status) ==
    [question_number |-> question_num(q), question_id |-> q.id, status |-> status,
     score |-> 0, max_score |-> q.score]
\* The record of an assessed question.
assessed(q, value) ==
    [question_number |-> question_num(q), question_id |-> q.id, status |-> "assessed",
     score |-> value.score, max_score |-> q.score,
     statistics |-> value.stats, breakdown |-> value.breakdown,
     feature_assessments |-> feature_assessments_list]


\* The question left out of the totals altogether.
skip_question_uncounted(status) ==
    /\ question_assessments' = Append(question_assessments, not_assessed(this_question, status))
    /\ total_max_score' = total_max_score
    /\ question' = question + 1
    /\ pc' = "question"
    /\ pending' = <<>>
    /\ UNCHANGED <<total_score, loaded_exams, student_email, student_data, result,
                   feature_assessments_list>>
\* assessments.append(record); total_max_score += question["score"]; on to the
\* next question.
skip_question(status) ==
    /\ question_assessments' = Append(question_assessments, not_assessed(this_question, status))
    /\ total_max_score' = FAdd(total_max_score, Literal(this_question.score))
    /\ question' = question + 1
    /\ pc' = "question"
    /\ pending' = <<>>
    /\ UNCHANGED <<total_score, loaded_exams, student_email, student_data, result,
                   feature_assessments_list>>

\* if question_num not in student_data["responses"]: ... continue
no_response ==
    /\ in_loop /\ ~has_response
    /\ skip_question("no_response")
    /\ UNCHANGED <<scoringVars, checklist, loaded_checklists, trace>>
    /\ UNCHANGED <<batchVars, toolVars>>

\* self.questions_store.question(question["id"]) or load_answer_cache(q) raises.
question_error ==
    /\ in_loop /\ has_response
    /\ skip_question("error")
    /\ UNCHANGED <<scoringVars, checklist, loaded_checklists, trace>>
    /\ UNCHANGED <<batchVars, toolVars>>

\* The checklist of the context, None if there is none.
get_checklist(id) ==
    IF HasKey(loaded_checklists, id)
    THEN loaded_checklists[CHOOSE i \in 1..Len(loaded_checklists) :
                              loaded_checklists[i].key = id].value
    ELSE None
\* load_answer_cache(q) returns c where the context has no checklist of the
\* question; the context keeps a checklist that is not None.
loads_checklist(id, c) ==
    /\ get_checklist(id) # None => c = get_checklist(id)
    /\ loaded_checklists' = IF c = None THEN loaded_checklists
                            ELSE SetItem(loaded_checklists, id, c)
    /\ checklist' = c

\* if not checklist: ... continue
no_checklist ==
    /\ in_loop /\ has_response
    /\ loads_checklist(this_question.id, None)
    /\ skip_question("no_checklist")
    /\ UNCHANGED <<scoringVars, trace>>
    /\ UNCHANGED <<batchVars, toolVars>>

\* feature_assessments_dict = {} and the generator enumerate_features(checklist)
begin_features(c) ==
    /\ in_loop /\ has_response
    /\ c # None
    /\ loads_checklist(this_question.id, c)
    /\ assessment' = EmptyDict
    /\ weight' = this_question.score
    /\ ret' = None
    /\ returned' = <<>>
    /\ pending' = enumerate_features(c)
    /\ feature_assessments_list' = <<>>
    /\ pc' = "feature"
    /\ UNCHANGED <<loaded_exams, student_email, student_data, question,
                   question_assessments, total_score, total_max_score, result, trace>>
    /\ UNCHANGED <<batchVars, toolVars>>

\* One call of the oracle or of the scoring function for the question at hand.
Call(name, index) == [call |-> name, question |-> question, index |-> index]

\* {"feature": feature.description, "feature_type": feature.type.name,
\*  "satisfied": result.satisfied, "motivation": result.motivation}
feature_record(feature, r) ==
    [feature |-> feature.description, feature_type |-> feature.type,
     satisfied |-> r.satisfied, motivation |-> r.motivation]

\* The mapping keeps the verdict a feature already has:
\* feature_assessments_dict.setdefault(feature, result)
assess_feature_keep_first(r) ==
    /\ pc = "feature" /\ pending # <<>>
    /\ assessment' = IF HasKey(assessment, pending[1][2]) THEN assessment
                     ELSE SetItem(assessment, pending[1][2], r)
    /\ ret' = None
    /\ returned' = <<>>
    /\ pending' = Tail(pending)
    /\ feature_assessments_list'
         = Append(feature_assessments_list, feature_record(pending[1][2], r))
    /\ trace' = Append(trace, Call("invoke", pending[1][1]))
    /\ UNCHANGED <<weight, checklist, loaded_exams, loaded_checklists, pc, student_email,
                   student_data, question, question_assessments, total_score,
                   total_max_score, result>>
    /\ UNCHANGED <<batchVars, toolVars>>
\* result = llm.invoke(prompt); feature_assessments_list.append({...});
\* feature_assessments_dict[feature] = result
assess_feature(r) ==
    /\ pc = "feature" /\ pending # <<>>
    /\ assessment' = SetItem(assessment, pending[1][2], r)
    /\ ret' = None
    /\ returned' = <<>>
    /\ pending' = Tail(pending)
    /\ feature_assessments_list'
         = Append(feature_assessments_list, feature_record(pending[1][2], r))
    /\ trace' = Append(trace, Call("invoke", pending[1][1]))
    /\ UNCHANGED <<weight, checklist, loaded_exams, loaded_checklists, pc, student_email,
                   student_data, question, question_assessments, total_score,
                   total_max_score, result>>
    /\ UNCHANGED <<batchVars, toolVars>>

\* llm.invoke(prompt) raises: except Exception as e
oracle_error ==
    /\ pc = "feature" /\ pending # <<>>
    /\ trace' = Append(trace, Call("invoke raised", pending[1][1]))
    /\ skip_question("error")
    /\ UNCHANGED <<scoringVars, checklist, loaded_checklists>>
    /\ UNCHANGED <<batchVars, toolVars>>


\* The rest of the body of the loop without total_max_score += question["score"].
scored_max_forgotten(value) ==
    /\ ret' = Returned("calculate_score_from_assessments", value)
    /\ returned' = Append(returned, ret')
    /\ IF IsRaised(value)
       THEN /\ question_assessments'
                 = Append(question_assessments, not_assessed(this_question, "error"))
            /\ total_score' = total_score
       ELSE /\ question_assessments'
                 = Append(question_assessments, assessed(this_question, value))
            /\ total_score' = FAdd(total_score, Literal(value.score))
    /\ total_max_score' = total_max_score
\* The rest of the body of the loop once the scoring function has returned value.
scored(value) ==
    /\ ret' = Returned("calculate_score_from_assessments", value)
    /\ returned' = Append(returned, ret')
    /\ IF IsRaised(value)
       THEN /\ question_assessments'
                 = Append(question_assessments, not_assessed(this_question, "error"))
            /\ total_score' = total_score
       ELSE /\ question_assessments'
                 = Append(question_assessments, assessed(this_question, value))
            /\ total_score' = FAdd(total_score, Literal(value.score))
    /\ total_max_score' = FAdd(total_max_score, Literal(this_question.score))


\* The scoring function called while features are still to be assessed.
score_question_early ==
    /\ pc = "feature"
    /\ scored(calculate_score_from_assessments(assessment, this_question.score))
    /\ trace' = Append(trace, Call("calculate_score_from_assessments", Len(assessment)))
    /\ question' = question + 1
    /\ pc' = "question"
    /\ UNCHANGED <<assessment, weight, checklist, loaded_exams, loaded_checklists,
                   student_email, student_data, pending, result,
                   feature_assessments_list>>
    /\ UNCHANGED <<batchVars, toolVars>>
\* score, breakdown, stats = calculate_score_from_assessments(...) after the last
\* feature; total_score += score; total_max_score += question["score"]
score_question ==
    /\ pc = "feature" /\ pending = <<>>
    /\ scored(calculate_score_from_assessments(assessment, this_question.score))
    /\ trace' = Append(trace, Call("calculate_score_from_assessments", Len(assessment)))
    /\ question' = question + 1
    /\ pc' = "question"
    /\ UNCHANGED <<assessment, weight, checklist, loaded_exams, loaded_checklists,
                   student_email, student_data, pending, result,
                   feature_assessments_list>>
    /\ UNCHANGED <<batchVars, toolVars>>

\* round((total_score / total_max_score * 100) if total_max_score > 0 else 0, 1),
\* in tenths
total_percentage(score, max_score) ==
    IF max_score # FZero THEN Round1(FMul(FDiv(score, max_score), Lit100)) ELSE 0

\* The result after the loop.
student_result ==
    [student_email |-> student_data.email,
     calculated_score |-> total_score,
     max_score |-> total_max_score,
     percentage |-> total_percentage(total_score, total_max_score),
     scoring_system |-> "70% Core + 30% Important_Details",
     assessments |-> question_assessments]

\* return json.dumps(result, indent=2)
return_result ==
    /\ pc = "question" /\ question > Len(exam_questions)
    /\ result' = student_result
    /\ pc' = "returned"
    /\ UNCHANGED <<scoringVars, checklist, loaded_exams, loaded_checklists, student_email,
                   student_data, question, pending, question_assessments, total_score,
                   total_max_score, trace, feature_assessments_list>>
    /\ UNCHANGED <<batchVars, toolVars>>

\* Writing assessment.json or summary.txt raises: the outer except Exception.
return_error ==
    /\ pc = "question" /\ question > Len(exam_questions)
    /\ result' = [error |-> "OSError", traceback |-> "Traceback"]
    /\ pc' = "returned"
    /\ UNCHANGED <<scoringVars, checklist, loaded_exams, loaded_checklists, student_email,
                   student_data, question, pending, question_assessments, total_score,
                   total_max_score, trace, feature_assessments_list>>
    /\ UNCHANGED <<batchVars, toolVars>>

(***************************************************************************)
(* One student's exam                                                      *)
(***************************************************************************)
\* The most questions of an exam, and the scores of a question: 0.0, 0.33, 2.5
\* and 3.0.
MaxQuestions == 2
ExamScores == {0, 33, 250, 300}
\* Question i of an exam.
ExamQuestion(i, score) == Question("Question " \o ToString(i), "Q" \o ToString(i), score)
QuestionLists ==
    UNION {{[i \in 1..n |-> ExamQuestion(i, scores[i])] : scores \in [1..n -> ExamScores]} :
           n \in 0..MaxQuestions}
\* What load_answer_cache may return: no items, one core item, two core items
\* and an important detail.
ExamChecklists ==
    {Answer(<<>>, <<>>), Answer(<<"d1">>, <<>>), Answer(<<"d1", "d2">>, <<"d1">>),
     Answer(<<"d1", "d1">>, <<>>)}
ExamEmail == "ann.lee@u.it"

\* An exam of one student is loaded and assess_student_exam is called with the
\* student's email.
InitExam ==
    /\ loaded_exams \in {Exam(qs, <<Student(ExamEmail, r)>>) :
                            qs \in QuestionLists, r \in SUBSET (1..MaxQuestions)}
    /\ student_email = ExamEmail
    /\ assessment = EmptyDict
    /\ weight = 0
    /\ ret = None
    /\ returned = <<>>
    /\ checklist = None
    /\ loaded_checklists = EmptyDict
    /\ NotCalled
    /\ NoBatch

NextStudent ==
    \/ assess_student_exam
    \/ no_response
    \/ question_error
    \/ no_checklist
    \/ \E c \in ExamChecklists : begin_features(c)
    \/ \E r \in Assessments : assess_feature(r)
    \/ oracle_error
    \/ score_question
    \/ return_result
    \/ return_error

SpecExam == InitExam /\ [][NextStudent]_vars

(***************************************************************************)
(* Properties of assess_student_exam                                       *)
(***************************************************************************)
\* The call has returned a result that is not an error.
HasResult == pc = "returned" /\ "error" \notin DOMAIN result

\* acc + xs[1] + xs[2] + ... in floats, added from left to right.
RECURSIVE FSum(_, _)
FSum(acc, xs) == IF xs = <<>> THEN acc ELSE FSum(FAdd(acc, xs[1]), Tail(xs))

\* The floats of the scores of the questions of the exam, and of the scores the
\* assessed questions got, in the order of the questions.
QuestionScores == [i \in 1..Len(exam_questions) |-> Literal(exam_questions[i].score)]
AssessedScores ==
    [i \in 1..Len(question_assessments) |->
        IF question_assessments[i].status = "assessed"
        THEN Literal(question_assessments[i].score) ELSE FZero]

\* C13: a question that is not assessed (no_response, no_checklist, error) adds
\* 0.0 to calculated_score and its full score to max_score: max_score is the sum
\* of the scores of all the questions and calculated_score the sum of the scores
\* of the assessed questions.
C13_Totals ==
    HasResult =>
        /\ Len(result.assessments) = Len(exam_questions)
        /\ \A i \in 1..Len(result.assessments) :
              /\ result.assessments[i].max_score = exam_questions[i].score
              /\ result.assessments[i].status # "assessed"
                    => /\ result.assessments[i].status
                             \in {"no_response", "no_checklist", "error"}
                       /\ result.assessments[i].score = 0
        /\ result.max_score = FSum(FZero, QuestionScores)
        /\ result.calculated_score = FSum(FZero, AssessedScores)

\* A result for an exam of two questions of 2.5 and 3.0 of which one is assessed
\* with a score above 0 and the other is not assessed.
C13_Witness ==
    /\ HasResult
    /\ Len(exam_questions) = 2
    /\ exam_questions[1].score = 250 /\ exam_questions[2].score = 300
    /\ \E i, j \in 1..2 :
          /\ result.assessments[i].status = "assessed"
          /\ result.assessments[i].score > 0
          /\ result.assessments[j].status # "assessed"
    /\ result.max_score = FDivInt(550, 100)

ScoringCalls(n) ==
    {p \in 1..Len(trace) : /\ trace[p].call = "calculate_score_from_assessments"
                           /\ trace[p].question = n}
FeaturesOf(n) == enumerate_features(get_checklist(exam_questions[n].id))

\* C15: calculate_score_from_assessments is called at most once for a question,
\* only after the oracle has given a verdict for every feature enumerated from
\* the checklist, and never for a question with no response, no checklist or an
\* oracle failure.
C15_ScoredOnceAfterVerdicts ==
    \A n \in 1..Len(exam_questions) :
        /\ Cardinality(ScoringCalls(n)) <= 1
        /\ \A p \in ScoringCalls(n) :
              \A i \in 1..Len(FeaturesOf(n)) :
                  \E v \in 1..(p - 1) :
                      trace[v] = [call |-> "invoke", question |-> n,
                                  index |-> FeaturesOf(n)[i][1]]
        /\ (n <= Len(question_assessments) /\ question_assessments[n].status # "assessed")
              => ScoringCalls(n) = {}
        /\ (n > Len(question_assessments)) => ScoringCalls(n) = {}

\* The first question was scored after three verdicts and the second one was not
\* scored because the oracle failed.
C15_Witness ==
    /\ Len(question_assessments) = 2
    /\ question_assessments[1].status = "assessed"
    /\ Len(FeaturesOf(1)) = 3
    /\ ScoringCalls(1) # {}
    /\ question_assessments[2].status = "error"
    /\ \E v \in 1..Len(trace) : trace[v].call = "invoke raised" /\ trace[v].question = 2

(***************************************************************************)
(* The lookup of the student                                               *)
(***************************************************************************)
\* The emails of the students of an exam: one is the beginning of another, one
\* is shorter than MinPrefix.
Emails == {"ann.lee@u.it", "ann.lee@u.it.old", "bob@u.it", "bob@u.it.x"}
\* The students loaded: MatchStudents students with different emails, in any
\* order; those of bob have no response.
MatchStudents == 2
StudentOf(email) ==
    Student(email, IF startswith(email, "bob") THEN {} ELSE {1})
StudentLists ==
    {[i \in 1..MatchStudents |-> StudentOf(emails[i])] :
        emails \in {e \in [1..MatchStudents -> Emails] :
                       \A i, j \in 1..MatchStudents : i # j => e[i] # e[j]}}
\* The emails asked for: full emails in either case, with a dot or blanks around,
\* beginnings of MinPrefix characters and of one less, shorter emails, an unknown one.
Queries == {"ann.lee@u.it", "ANN.LEE@U.IT", " ann.lee@u.it ", "ann.lee@u.it.",
            "ann.lee@u.", "ann.lee@u", "bob@u.it", "BOB@u.it..", "bob@u.it.x",
            "eve@u.it"}

InitMatch ==
    /\ loaded_exams \in {Exam(<<ExamQuestion(1, 300)>>, studs) : studs \in StudentLists}
    /\ student_email \in Queries
    /\ assessment = EmptyDict
    /\ weight = 0
    /\ ret = None
    /\ returned = <<>>
    /\ checklist = None
    /\ loaded_checklists = EmptyDict
    /\ NotCalled
    /\ NoBatch

SpecMatch == InitMatch /\ [][NextStudent]_vars

\* The student has been looked up.
LookedUp == pc # "idle"
\* The query as the lookup compares it.
Asked == lower(student_email_clean(student_email))

\* C19: when a loaded student's email equals the query but for the case, that
\* student is the one assessed, even if a student loaded earlier has an email
\* that begins with the query; a query shorter than 10 characters matches only
\* an equal email.
C19_ExactMatchFirst ==
    LookedUp =>
        /\ (\E i \in 1..Len(exam_students) : lower(exam_students[i].email) = Asked)
              => /\ student_data # None
                 /\ lower(student_data.email) = Asked
        /\ (student_data # None /\ Len(Asked) < MinPrefix)
              => lower(student_data.email) = Asked

(***************************************************************************)
(* exam.mcp: load_exam_from_yaml and assess_full_exam                      *)
(***************************************************************************)
\* A row of the responses file.
Row(state, emailaddress, responses) ==
    [state |-> state, emailaddress |-> emailaddress, responses |-> responses]

\* load_exam_from_yaml: the students are the rows whose state is "Finished", in
\* the order of the file.
RECURSIVE parse_students(_)
parse_students(rows) ==
    IF rows = <<>> THEN <<>>
    ELSE (IF rows[1].state # "Finished" THEN <<>>
          ELSE <<Student(rows[1].emailaddress, rows[1].responses)>>)
         \o parse_students(Tail(rows))

\* max_students: None, or the int n held as <<n>>.
Supplied(n) == <<n>>
\* Python's truth value of max_students.
truthy(limit) == limit # None /\ limit[1] # 0
\* students[:n] for n >= 0
slice(list, n) == SubSeq(list, 1, IF n < Len(list) THEN n ELSE Len(list))
\* if max_students: students = students[:max_students]
limited(list, limit) == IF truthy(limit) THEN slice(list, limit[1]) ELSE list

\* The locals of assess_student_exam are gone when it has returned.
forget_call ==
    /\ pc' = "idle"
    /\ student_data' = None
    /\ question' = 0
    /\ pending' = <<>>
    /\ question_assessments' = <<>>
    /\ total_score' = FZero
    /\ total_max_score' = FZero
    /\ trace' = <<>>
    /\ feature_assessments_list' = <<>>
    /\ assessment' = EmptyDict
    /\ weight' = 0
    /\ ret' = None
    /\ returned' = <<>>
    /\ checklist' = None

\* The call up to the loop over the students: the exam with the questions qs is
\* loaded and the students are limited to max_students.
assess_full_exam(qs) ==
    /\ batch_pc = "idle" /\ pc = "idle"
    /\ loaded_exams' = Exam(qs, parse_students(responses_data))
    /\ students' = limited(parse_students(responses_data), max_students)
    /\ batch_results' = <<>>
    /\ idx' = 0
    /\ batch_pc' = "loop"
    /\ UNCHANGED <<scoringVars, checklist, loaded_checklists, pc, student_email,
                   student_data, question, pending, question_assessments, total_score,
                   total_max_score, result, trace, feature_assessments_list,
                   responses_data, max_students, summary, toolVars>>

\* load_exam_from_yaml returns an error (a file is not found or cannot be read):
\* return load_result
load_error ==
    /\ batch_pc = "idle" /\ pc = "idle"
    /\ summary' = [error |-> "Questions file not found"]
    /\ batch_pc' = "returned"
    /\ UNCHANGED <<scoringVars, checklist, studentVars, responses_data, max_students,
                   students, idx, batch_results, toolVars>>

\* assessment_result = await assess_student_exam(student["email"])
assess_next_student ==
    /\ batch_pc = "loop" /\ idx < Len(students)
    /\ called(students[idx + 1].email)
    /\ UNCHANGED <<batchVars, toolVars>>

\* student["email"][:30] + "..."
email_preview(email) ==
    SubSeq(email, 1, IF Len(email) > 30 THEN 30 ELSE Len(email)) \o "..."

\* The record of a student whose assessment is no error.
student_record(index, email, assessment_data) ==
    [student_index |-> index,
     email_preview |-> email_preview(email),
     calculated_score |-> assessment_data.calculated_score,
     max_score |-> assessment_data.max_score,
     percentage |-> assessment_data.percentage]

\* if "error" not in assessment_data: results.append(...); on to the next student.
collect_student ==
    /\ batch_pc = "loop" /\ pc = "returned"
    /\ batch_results' = IF "error" \in DOMAIN result THEN batch_results
                        ELSE Append(batch_results,
                                    student_record(idx + 1, students[idx + 1].email, result))
    /\ idx' = idx + 1
    /\ forget_call
    /\ UNCHANGED <<loaded_exams, loaded_checklists, student_email, result, batch_pc,
                   responses_data, max_students, students, summary, toolVars>>

\* scores = [r["calculated_score"] for r in results]
scores_of(rs) == [i \in 1..Len(rs) |-> rs[i].calculated_score]
\* round(sum(scores) / len(scores) if scores else 0, 2), in hundredths
average_score(scores) ==
    IF scores = <<>> THEN 0 ELSE Round2(FDiv(FSum(FZero, scores), FInt(Len(scores))))
\* max(scores) if scores else 0, min(scores) if scores else 0
max_of(scores) == IF scores = <<>> THEN FZero
                  ELSE scores[CHOOSE i \in 1..Len(scores) :
                                 \A j \in 1..Len(scores) : FLeq(scores[j], scores[i])]
min_of(scores) == IF scores = <<>> THEN FZero
                  ELSE scores[CHOOSE i \in 1..Len(scores) :
                                 \A j \in 1..Len(scores) : FLeq(scores[i], scores[j])]

\* The summary after the loop.
batch_summary(rs) ==
    [exam |-> [num_students |-> Len(rs)],
     statistics |-> [average_score |-> average_score(scores_of(rs)),
                     max_score |-> max_of(scores_of(rs)),
                     min_score |-> min_of(scores_of(rs)),
                     total_possible |-> IF rs = <<>> THEN FZero ELSE rs[1].max_score],
     results |-> rs]

\* return json.dumps({...}, indent=2)
return_summary ==
    /\ batch_pc = "loop" /\ pc = "idle" /\ idx = Len(students)
    /\ summary' = batch_summary(batch_results)
    /\ batch_pc' = "returned"
    /\ UNCHANGED <<scoringVars, checklist, studentVars, responses_data, max_students,
                   students, idx, batch_results, toolVars>>

(***************************************************************************)
(* A batch                                                                 *)
(***************************************************************************)
\* The rows of the responses file: BatchRows rows, each finished or not.  The
\* first student answers the question; the email of the second one ends with a
\* dot, so that it is not found again.
BatchRows == 3
BatchEmails == <<"ann.lee@u.it", "bob@u.it.", "eve@u.it", "joe@u.it", "sue@u.it">>
States == {"Finished", "In progress"}
RowLists ==
    {[i \in 1..BatchRows |-> Row(states[i], BatchEmails[i], IF i = 1 THEN {1} ELSE {})] :
        states \in [1..BatchRows -> States]}
\* The questions file: one question of 3.0.
BatchQuestions == <<ExamQuestion(1, 300)>>
\* max_students: not supplied, or 0 .. BatchRows
Limits == {None} \cup {Supplied(n) : n \in 0..BatchRows}

InitBatch ==
    /\ responses_data \in RowLists
    /\ max_students \in Limits
    /\ batch_pc = "idle"
    /\ students = <<>>
    /\ idx = 0
    /\ batch_results = <<>>
    /\ summary = None
    /\ assessment = EmptyDict
    /\ weight = 0
    /\ ret = None
    /\ returned = <<>>
    /\ checklist = None
    /\ loaded_exams = None
    /\ loaded_checklists = EmptyDict
    /\ NoStudent
    /\ NoTools

NextBatch ==
    \/ assess_full_exam(BatchQuestions)
    \/ load_error
    \/ assess_next_student
    \/ no_response
    \/ question_error
    \/ no_checklist
    \/ \E c \in ExamChecklists : begin_features(c)
    \/ \E r \in Assessments : assess_feature(r)
    \/ oracle_error
    \/ score_question
    \/ return_result
    \/ return_error
    \/ collect_student
    \/ return_summary

SpecBatch == InitBatch /\ [][NextBatch]_vars

\* The finished students of the file, in the order of the file.
Finished ==
    SelectSeq(responses_data, LAMBDA row : row.state = "Finished")
\* The exam is loaded and the students to assess are chosen.
Started == batch_pc = "loop" \/ (batch_pc = "returned" /\ "error" \notin DOMAIN summary)

\* C20: with max_students = n, for any n >= 0, assess_full_exam assesses the first
\* n finished students in load order (all of them if there are fewer), without
\* max_students every finished student; num_students counts the students whose
\* assessment returned no error.
C20_FirstStudents ==
    Started =>
        /\ Len(students) = (IF max_students = None \/ max_students[1] > Len(Finished)
                            THEN Len(Finished) ELSE max_students[1])
        /\ \A i \in 1..Len(students) : students[i].email = Finished[i].emailaddress
        /\ idx <= Len(students)
        /\ Len(batch_results) <= idx
        /\ batch_pc = "returned" => summary.exam.num_students = Len(batch_results)

(***************************************************************************)
(* The two scoring functions on one mapping                                *)
(***************************************************************************)
\* A non-empty mapping without additional details, as enumerate_features gives.
Enumerable == NonEmpty /\ Count(DETAILS_ADDITIONAL) = 0
\* The important category is empty or all of its features are satisfied.
ImportantFull == Credited(DETAILS_IMPORTANT) = Count(DETAILS_IMPORTANT)
\* Both functions have scored the mapping: the places of their calls.
ScoredBy(call) == {k \in 1..Len(returned) : returned[k].call = call}

Pairs(list) == {Feature(list[i].feature_type, list[i].feature) : i \in 1..Len(list)}
\* The place of the last record of the feature in the list.
LastOf(list, feature) ==
    CHOOSE i \in 1..Len(list) :
        /\ Feature(list[i].feature_type, list[i].feature) = feature
        /\ \A j \in (i + 1)..Len(list) :
              Feature(list[j].feature_type, list[j].feature) # feature
\* The mapping holds one entry for each pair of the list, with the verdict of the
\* last record of the pair.
OneEntryEach(mapping, list) ==
    /\ Len(mapping) = Cardinality(Pairs(list))
    /\ \A f \in Pairs(list) :
          \E i \in 1..Len(mapping) :
              /\ mapping[i].key = f
              /\ mapping[i].value.satisfied = list[LastOf(list, f)].satisfied
\* The total of the features of the statistics; the statistics of an empty
\* mapping are the empty dict.
Totals(stats) ==
    IF stats = EmptyDict THEN 0 ELSE stats.core.total + stats.details_important.total
\* The statistics count the pairs of the list, category by category.
CountsPairs(stats, list) ==
    IF stats = EmptyDict THEN list = <<>> ELSE
    /\ stats.core.total = Cardinality({f \in Pairs(list) : f.type = CORE})
    /\ stats.details_important.total
         = Cardinality({f \in Pairs(list) : f.type = DETAILS_IMPORTANT})

\* C28: while the features of a question are assessed and when they are scored,
\* the mapping passed to calculate_score_from_assessments holds one entry for
\* each (type, description) pair of feature_assessments, with the verdict of the
\* last-assessed occurrence of the pair; the totals of the statistics of an
\* assessed question are the numbers of distinct pairs of its feature_assessments,
\* never more than the number of its entries.
C28_OneEntryPerFeature ==
    /\ pc = "feature" => OneEntryEach(assessment, feature_assessments_list)
    /\ \A k \in 1..Len(question_assessments) :
          question_assessments[k].status = "assessed"
          => /\ CountsPairs(question_assessments[k].statistics,
                            question_assessments[k].feature_assessments)
             /\ Totals(question_assessments[k].statistics)
                <= Len(question_assessments[k].feature_assessments)
\* A question is assessed whose checklist lists a description twice, the first
\* occurrence satisfied and the last one not: the statistics count one feature,
\* not satisfied, where feature_assessments has two entries.
C28_Witness ==
    \E k \in 1..Len(question_assessments) :
        /\ question_assessments[k].status = "assessed"
        /\ Len(question_assessments[k].feature_assessments) = 2
        /\ question_assessments[k].feature_assessments[1].satisfied
        /\ ~question_assessments[k].feature_assessments[2].satisfied
        /\ question_assessments[k].statistics.core.total = 1
        /\ question_assessments[k].statistics.core.satisfied = 0

(***************************************************************************)
(* load_student_answer                                                     *)
(***************************************************************************)
\* What the file system holds for a question and a student: no directory that
\* matches the pattern, a directory without an answer file, or the text of the file.
NoDirectory == [missing |-> "directory"]
NoAnswerFile == [missing |-> "file"]
AnswerFile(text) == [text |-> text]

\* AssessmentContext: key = f"{question_id}_{student_code}"
session_key(question_id, student_code) == question_id \o "_" \o student_code
\* context.store_answer
store_answer(answers_dict, question_id, student_code, answer) ==
    SetItem(answers_dict, session_key(question_id, student_code), answer)
\* context.get_answer: self.loaded_answers.get(key), None or the text held as <<text>>
get_answer(answers_dict, question_id, student_code) ==
    IF HasKey(answers_dict, session_key(question_id, student_code))
    THEN <<answers_dict[CHOOSE i \in 1..Len(answers_dict) :
              answers_dict[i].key = session_key(question_id, student_code)].value>>
    ELSE None
\* if cached: Python's truth value of cached, neither None nor the empty str
is_cached(cached) == cached # None /\ cached[1] # ""

\* text[:200] + "..." if len(text) > 200 else text
preview(text) == IF Len(text) > 200 THEN SubSeq(text, 1, 200) \o "..." ELSE text

\* What the call returns; the file system is read where the answer is not cached.
load_student_answer_result(question_id, student_code, cached, file) ==
    IF exam_dir = None THEN [error |-> "No exam directory configured"]
    ELSE IF is_cached(cached)
    THEN [status |-> "already_loaded", question_id |-> question_id,
          student_code |-> student_code, preview |-> preview(cached[1]),
          length |-> Len(cached[1])]
    ELSE IF file = NoDirectory
    THEN [error |-> "No answer found for student " \o student_code \o " on question "
                    \o question_id]
    ELSE IF file = NoAnswerFile THEN [error |-> "Answer file not found"]
    ELSE [status |-> "loaded", question_id |-> question_id,
          student_code |-> student_code, preview |-> preview(file.text),
          length |-> Len(file.text)]

\* A call of a tool with its arguments and what it returned.
ToolCall(call, args, value) == [call |-> call, args |-> args, value |-> value]

\* The tool load_student_answer(question_id, student_code).
load_student_answer(question_id, student_code) ==
    /\ Len(returned) < MaxLoads
    /\ ret' = ToolCall("load_student_answer", <<question_id, student_code>>,
                       load_student_answer_result(
                           question_id, student_code,
                           get_answer(loaded_answers, question_id, student_code),
                           answer_file[<<question_id, student_code>>]))
    /\ returned' = Append(returned, ret')
    /\ reads' = IF exam_dir = None
                    \/ is_cached(get_answer(loaded_answers, question_id, student_code))
                 THEN reads ELSE reads + 1
    /\ loaded_answers' =
         IF "status" \in DOMAIN ret'.value /\ ret'.value.status = "loaded"
         THEN store_answer(loaded_answers, question_id, student_code,
                           answer_file[<<question_id, student_code>>].text)
         ELSE loaded_answers
    /\ UNCHANGED <<assessment, weight, checklist, studentVars, batchVars, answer_file,
                   exam_dir, graphVars, tool_intervals, answers>>

\* The answer file of a student is written between two calls.
write_answer_file(question_id, student_code, text) ==
    /\ answer_file[<<question_id, student_code>>] # AnswerFile(text)
    /\ answer_file' = [answer_file EXCEPT ![<<question_id, student_code>>] = AnswerFile(text)]
    /\ UNCHANGED <<scoringVars, checklist, studentVars, batchVars, loaded_answers, reads,
                   exam_dir, graphVars, tool_intervals, answers>>

\* The questions, the students and the texts of the answer files.
AnswerQuestions == {"CI-5"}
AnswerStudents == {"280944", "280945"}
AnswerTexts == {"", "An answer."}
Sessions == AnswerQuestions \X AnswerStudents
Files == {NoDirectory, NoAnswerFile} \cup {AnswerFile(text) : text \in AnswerTexts}

InitAnswers ==
    /\ exam_dir \in {None, <<"mock_exam_submissions">>}
    /\ answer_file \in [Sessions -> Files]
    /\ loaded_answers = EmptyDict
    /\ reads = 0
    /\ NoGraph
    /\ tool_intervals = <<>>
    /\ answers = <<>>
    /\ assessment = EmptyDict
    /\ weight = 0
    /\ ret = None
    /\ returned = <<>>
    /\ checklist = None
    /\ loaded_exams = None
    /\ loaded_checklists = EmptyDict
    /\ NoStudent
    /\ batch_pc = "idle"
    /\ responses_data = <<>>
    /\ max_students = None
    /\ students = <<>>
    /\ idx = 0
    /\ batch_results = <<>>
    /\ summary = None

NextAnswers ==
    \/ \E q \in AnswerQuestions, c \in AnswerStudents : load_student_answer(q, c)
    \/ \E q \in AnswerQuestions, c \in AnswerStudents, text \in AnswerTexts :
          write_answer_file(q, c, text)

SpecAnswers == InitAnswers /\ [][NextAnswers]_vars

\* A call for the question and the student has returned a status, no error.
Loaded(q, c) ==
    \E k \in 1..Len(returned) :
        /\ returned[k].args = <<q, c>>
        /\ "status" \in DOMAIN returned[k].value
\* The step is a call for the question and the student.
LoadsAgain(q, c) ==
    /\ Len(returned') = Len(returned) + 1
    /\ ret'.args = <<q, c>>

\* C21: once a call of load_student_answer for a question and a student has
\* succeeded, no step changes the text the context holds for them, and every
\* later call for them returns the status "already_loaded" and leaves the count
\* of the reads of the file system as it is, whatever the text of the file.
C21_LoadedOnce ==
    [][\A q \in AnswerQuestions, c \in AnswerStudents :
          Loaded(q, c)
          => /\ get_answer(loaded_answers', q, c) = get_answer(loaded_answers, q, c)
             /\ LoadsAgain(q, c)
                => /\ "status" \in DOMAIN ret'.value
                   /\ ret'.value.status = "already_loaded"
                   /\ reads' = reads]_vars
\* The same for the answers that are not empty.
C21_NonEmptyLoadedOnce ==
    [][\A q \in AnswerQuestions, c \in AnswerStudents :
          Loaded(q, c) /\ get_answer(loaded_answers, q, c) # <<"">>
          => /\ get_answer(loaded_answers', q, c) = get_answer(loaded_answers, q, c)
             /\ LoadsAgain(q, c)
                => /\ "status" \in DOMAIN ret'.value
                   /\ ret'.value.status = "already_loaded"
                   /\ reads' = reads]_vars

(***************************************************************************)
(* calculate_overhead                                                      *)
(***************************************************************************)
\* (span.start_time_ns, span.end_time_ns)
Interval(start, end) == <<start, end>>

\* tool_intervals.sort(key=lambda x: x[0]): the stable sort by start, an interval
\* going behind the intervals that do not start later.
RECURSIVE insert_by_start(_, _)
insert_by_start(sorted, interval) ==
    IF sorted = <<>> \/ sorted[Len(sorted)][1] <= interval[1]
    THEN Append(sorted, interval)
    ELSE Append(insert_by_start(SubSeq(sorted, 1, Len(sorted) - 1), interval),
                sorted[Len(sorted)])
RECURSIVE sort_by_start(_)
sort_by_start(intervals) ==
    IF intervals = <<>> THEN <<>>
    ELSE insert_by_start(sort_by_start(SubSeq(intervals, 1, Len(intervals) - 1)),
                         intervals[Len(intervals)])

\* The end of the next interval taken whatever the current end: curr_end = next_end
extend_to_next(curr_end, next_end) == next_end
\* curr_end = max(curr_end, next_end)
extend(curr_end, next_end) == IF curr_end >= next_end THEN curr_end ELSE next_end

\* The loop over tool_intervals[1:] and the append after it.
RECURSIVE merge(_, _, _, _)
merge(merged, curr_start, curr_end, rest) ==
    IF rest = <<>> THEN Append(merged, Interval(curr_start, curr_end))
    ELSE IF rest[1][1] < curr_end
    THEN merge(merged, curr_start, extend(curr_end, rest[1][2]), Tail(rest))
    ELSE merge(Append(merged, Interval(curr_start, curr_end)), rest[1][1], rest[1][2],
               Tail(rest))

\* merged, for the sorted intervals
merged_intervals(sorted) ==
    IF sorted = <<>> THEN <<>> ELSE merge(<<>>, sorted[1][1], sorted[1][2], Tail(sorted))

\* for start, end in merged: merged_duration_ns += (end - start)
RECURSIVE duration(_)
duration(merged) ==
    IF merged = <<>> THEN 0 ELSE (merged[1][2] - merged[1][1]) + duration(Tail(merged))

\* The function on the intervals of the TOOL spans of the traces of the run.
calculate_overhead ==
    /\ ret = None
    /\ tool_intervals' = sort_by_start(tool_intervals)
    /\ ret' = [merged |-> merged_intervals(sort_by_start(tool_intervals)),
               merged_duration_ns |-> duration(merged_intervals(sort_by_start(tool_intervals)))]
    /\ UNCHANGED <<assessment, weight, returned, checklist, studentVars, batchVars,
                   answerVars, graphVars, answers>>

\* The times of the spans, the most spans of a run, and the runs: every list of
\* at most MaxSpans intervals that end no earlier than they start.
MaxTime == 3
MaxSpans == 3
Spans == {span \in (0..MaxTime) \X (0..MaxTime) : span[1] <= span[2]}
SpanLists == UNION {[1..n -> Spans] : n \in 0..MaxSpans}

InitOverhead ==
    /\ tool_intervals \in SpanLists
    /\ NoAnswers
    /\ NoGraph
    /\ answers = <<>>
    /\ assessment = EmptyDict
    /\ weight = 0
    /\ ret = None
    /\ returned = <<>>
    /\ checklist = None
    /\ loaded_exams = None
    /\ loaded_checklists = EmptyDict
    /\ NoStudent
    /\ batch_pc = "idle"
    /\ responses_data = <<>>
    /\ max_students = None
    /\ students = <<>>
    /\ idx = 0
    /\ batch_results = <<>>
    /\ summary = None

NextOverhead == calculate_overhead

SpecOverhead == InitOverhead /\ [][NextOverhead]_vars

\* The length of the union of the intervals: the units of time [t, t + 1] that
\* lie in one of them.
UnionLength(intervals) ==
    Cardinality({t \in 0..(MaxTime - 1) :
                    \E i \in 1..Len(intervals) :
                        intervals[i][1] <= t /\ t + 1 <= intervals[i][2]})
\* The function has returned.
Measured == ret # None /\ "merged" \in DOMAIN ret

\* C24: the merged duration is the length of the union of the intervals, and the
\* merged intervals are sorted by start and pairwise disjoint as the closed
\* intervals [start, end]: each ends before the next one starts.
C24_MergedDisjoint ==
    Measured
    => /\ ret.merged_duration_ns = UnionLength(tool_intervals)
       /\ \A i \in 1..(Len(ret.merged) - 1) :
             /\ ret.merged[i][1] <= ret.merged[i + 1][1]
             /\ ret.merged[i][2] < ret.merged[i + 1][1]
\* C24: the merged duration is the length of the union of the intervals, and the
\* merged intervals are sorted by start and overlap in no more than an end point:
\* each ends no later than the next one starts, and every interval lies in a
\* merged one.
C24_MergedApart ==
    Measured
    => /\ ret.merged_duration_ns = UnionLength(tool_intervals)
       /\ \A i \in 1..(Len(ret.merged) - 1) :
             /\ ret.merged[i][1] <= ret.merged[i + 1][1]
             /\ ret.merged[i][2] <= ret.merged[i + 1][1]
       /\ \A i \in 1..Len(tool_intervals) :
             \E j \in 1..Len(ret.merged) :
                 /\ ret.merged[j][1] <= tool_intervals[i][1]
                 /\ tool_intervals[i][2] <= ret.merged[j][2]
\* Three intervals, one nested in another and one touching it: (0, 2), (1, 2)
\* and (2, 3) in any order give the merged intervals (0, 2), (2, 3).
C24_Witness ==
    /\ Measured
    /\ tool_intervals = <<Interval(0, 2), Interval(1, 2), Interval(2, 3)>>
    /\ ret.merged = <<Interval(0, 2), Interval(2, 3)>>
    /\ ret.merged_duration_ns = 3

(***************************************************************************)
(* StudentAssessment.total_score and TestAssessment.pretty_print           *)
(***************************************************************************)
\* An entry of StudentAssessment.answers: the weight of the question, in
\* hundredths, and the mapping of its AnswerAssessment.
StudentAnswer(question_weight, assessments) ==
    [weight |-> question_weight, assessment |-> assessments]

\* score, _ = answer_assessment.calculate_score(question.weight), for each answer
weighted_scores(student_answers) ==
    [i \in 1..Len(student_answers) |->
        calculate_score(student_answers[i].assessment, student_answers[i].weight)]
\* The floats of the scores.
score_floats(scores) == [i \in 1..Len(scores) |-> Literal(scores[i].score)]
\* StudentAssessment.total_score: round(total, 2), in hundredths
student_total_score(student_answers) ==
    Round2(FSum(FZero, score_floats(weighted_scores(student_answers))))

\* The max_score of pretty_print: answer.calculate_score(3)
PrettyPrintWeight == 300
\* score, breakdown = answer.calculate_score(3);
\* print(f"  Score: {score}/{question.weight}")
shown_scores(student_answers) ==
    [i \in 1..Len(student_answers) |->
        [score |-> calculate_score(student_answers[i].assessment, PrettyPrintWeight).score,
         weight |-> student_answers[i].weight]]
\* max_total = sum(q.weight for q in student.answers.keys())
max_total(student_answers) ==
    FSum(FZero, [i \in 1..Len(student_answers) |-> Literal(student_answers[i].weight)])
\* if len(student.answers) > 1: print(f"\n  Total Score: {total}/{max_total}")
shown_total(student_answers) ==
    IF Len(student_answers) > 1
    THEN <<[total |-> student_total_score(student_answers),
            max_total |-> max_total(student_answers)]>>
    ELSE <<>>

\* What pretty_print prints for the student: the scores of the questions and
\* the total score.
pretty_print ==
    /\ Len(returned) < MaxPrints
    /\ ret' = Returned("pretty_print",
                       [scores |-> shown_scores(answers), total |-> shown_total(answers)])
    /\ returned' = Append(returned, ret')
    /\ UNCHANGED <<assessment, weight, checklist, studentVars, batchVars, answerVars,
                   graphVars, tool_intervals, answers>>

\* student.total_score()
total_score_call ==
    /\ Len(returned) < MaxPrints
    /\ ret' = Returned("total_score", student_total_score(answers))
    /\ returned' = Append(returned, ret')
    /\ UNCHANGED <<assessment, weight, checklist, studentVars, batchVars, answerVars,
                   graphVars, tool_intervals, answers>>

\* The answers of a student: at most MaxAnswers questions of weight 1.0, 2.5 or
\* 3.0, each with no feature assessed, a core item satisfied or not, or a core
\* item satisfied and an important detail not.
MaxAnswers == 2
PrintWeights == {100, 250, 300}
PrintMappings ==
    {EmptyDict,
     SetItem(EmptyDict, Feature(CORE, "d1"), FeatureAssessment(TRUE, "motivation")),
     SetItem(EmptyDict, Feature(CORE, "d1"), FeatureAssessment(FALSE, "motivation")),
     SetItem(SetItem(EmptyDict, Feature(CORE, "d1"), FeatureAssessment(TRUE, "motivation")),
             Feature(DETAILS_IMPORTANT, "d2"), FeatureAssessment(FALSE, "motivation"))}
StudentAnswers == {StudentAnswer(w, m) : w \in PrintWeights, m \in PrintMappings}
AnswerLists == UNION {[1..n -> StudentAnswers] : n \in 1..MaxAnswers}

InitPrint ==
    /\ answers \in AnswerLists
    /\ NoAnswers
    /\ NoGraph
    /\ tool_intervals = <<>>
    /\ assessment = EmptyDict
    /\ weight = 0
    /\ ret = None
    /\ returned = <<>>
    /\ checklist = None
    /\ loaded_exams = None
    /\ loaded_checklists = EmptyDict
    /\ NoStudent
    /\ batch_pc = "idle"
    /\ responses_data = <<>>
    /\ max_students = None
    /\ students = <<>>
    /\ idx = 0
    /\ batch_results = <<>>
    /\ summary = None

NextPrint == pretty_print \/ total_score_call

SpecPrint == InitPrint /\ [][NextPrint]_vars

\* pretty_print has printed.
Printed == ret # None /\ ret.call = "pretty_print"
\* The sum of the scores shown, rounded as total_score rounds: in hundredths.
ShownSum(scores) == Round2(FSum(FZero, score_floats(scores)))

\* C26: the score that pretty_print shows for a question is not more than the
\* weight of the question, and where it shows a total score the scores shown add
\* up to it, which is what total_score returns.
C26_ShownAgainstOwnWeight ==
    Printed
    => /\ \A i \in 1..Len(ret.value.scores) :
             ret.value.scores[i].score <= ret.value.scores[i].weight
       /\ ret.value.total # <<>>
          => /\ ret.value.total[1].total = student_total_score(answers)
             /\ ShownSum(ret.value.scores) = ret.value.total[1].total

(***************************************************************************)
(* The LangGraph workflow: ExamAssessmentGraph                             *)
(***************************************************************************)
\* run(task, max_students): the initial state; the graph is entered at load_exam.
\* max_students is not read.
run ==
    /\ node = "idle" /\ pc = "idle" /\ batch_pc = "idle"
    /\ next_action' = "load_exam"
    /\ students_to_assess' = <<>>
    /\ current_student_code' = ""
    /\ state_assessments' = <<>>
    /\ state_result' = ""
    /\ state_checklists' = {}
    /\ invoked' = <<>>
    /\ node' = "load_exam"
    /\ UNCHANGED <<scoringVars, checklist, studentVars, batchVars, answerVars,
                   tool_intervals, answers>>

\* [s["email"] for s in exam_data["students"]]
emails(studs) == [i \in 1..Len(studs) |-> studs[i].email]

\* load_exam_node where the tool loads the exam with the questions qs; then the
\* edge to prepare_student.
load_exam_node(qs) ==
    /\ node = "load_exam"
    /\ loaded_exams' = Exam(qs, parse_students(responses_data))
    /\ students_to_assess' = emails(parse_students(responses_data))
    /\ next_action' = "assess_next"
    /\ node' = "prepare_student"
    /\ UNCHANGED <<scoringVars, checklist, loaded_checklists, pc, student_email,
                   student_data, question, pending, question_assessments, total_score,
                   total_max_score, result, trace, feature_assessments_list, batchVars,
                   answerVars, current_student_code, state_assessments, state_result,
                   state_checklists, invoked, tool_intervals, answers>>

\* f"Errore caricamento: {data['error']}"
load_error_message(error) == "Errore caricamento: " \o error

\* load_exam_node where the tool returns an error; then the edge to
\* prepare_student.
load_exam_node_error ==
    /\ node = "load_exam"
    /\ next_action' = "error"
    /\ state_result' = load_error_message("Questions file not found")
    /\ node' = "prepare_student"
    /\ UNCHANGED <<scoringVars, checklist, studentVars, batchVars, answerVars,
                   students_to_assess, current_student_code, state_assessments,
                   state_checklists, invoked, tool_intervals, answers>>

\* route_after_prepare
route_after_prepare(action) ==
    IF action = "done" THEN "generate_report" ELSE "load_checklists"
\* route_after_assess
route_after_assess(action) ==
    IF action = "assess_next" THEN "prepare_student" ELSE "generate_report"

\* prepare_student_node, then the conditional edge.
prepare_student_node ==
    /\ node = "prepare_student"
    /\ IF students_to_assess = <<>>
       THEN /\ next_action' = "done"
            /\ current_student_code' = current_student_code
       ELSE /\ next_action' = "load_checklists"
            /\ current_student_code' = students_to_assess[1]
    /\ node' = route_after_prepare(next_action')
    /\ UNCHANGED <<scoringVars, checklist, studentVars, batchVars, answerVars,
                   students_to_assess, state_assessments, state_result,
                   state_checklists, invoked, tool_intervals, answers>>

\* The tool load_checklist on the context: a checklist that is cached stays, one
\* that is found (c is not None) is stored.
load_checklist(context, id, c) ==
    IF HasKey(context, id) \/ c = None THEN context ELSE SetItem(context, id, c)
\* The loop of load_checklists_node over the questions: the tool is called for
\* the questions that are not marked in the state; found[id] is what the loader
\* finds for the question id.
RECURSIVE load_checklists(_, _, _, _)
load_checklists(context, qs, marked, found) ==
    IF qs = <<>> THEN context
    ELSE load_checklists(IF qs[1].id \in marked THEN context
                         ELSE load_checklist(context, qs[1].id, found[qs[1].id]),
                         Tail(qs), marked \cup {qs[1].id}, found)
\* The ids of the questions.
question_ids(qs) == {qs[i].id : i \in 1..Len(qs)}

\* load_checklists_node, then the edge to assess_student.
load_checklists_node(found) ==
    /\ node = "load_checklists"
    /\ loaded_checklists' = load_checklists(loaded_checklists, exam_questions,
                                            state_checklists, found)
    /\ state_checklists' = state_checklists \cup question_ids(exam_questions)
    /\ next_action' = "assess_student"
    /\ node' = "assess_student"
    /\ UNCHANGED <<scoringVars, checklist, loaded_exams, pc, student_email,
                   student_data, question, pending, question_assessments, total_score,
                   total_max_score, result, trace, feature_assessments_list, batchVars,
                   answerVars, students_to_assess, current_student_code,
                   state_assessments, state_result, invoked, tool_intervals, answers>>

\* assess_student_node up to the tool:
\* result = await self.mcp_server.tools["assess_student_exam"](student_email)
assess_student_node ==
    /\ node = "assess_student"
    /\ called(current_student_code)
    /\ invoked' = Append(invoked, current_student_code)
    /\ UNCHANGED <<batchVars, answerVars, node, next_action, students_to_assess,
                   current_student_code, state_assessments, state_result,
                   state_checklists, tool_intervals, answers>>

\* The entry of state["assessments"] of a student whose assessment is no error.
graph_record(email, assessment_data) ==
    [student |-> email,
     score |-> assessment_data.calculated_score,
     max_score |-> assessment_data.max_score,
     percentage |-> assessment_data.percentage]

\* The student stays to assess where the assessment is an error.
remaining_if_assessed(to_assess, assessment_data) ==
    IF "error" \in DOMAIN assessment_data THEN to_assess ELSE Tail(to_assess)
\* state["students_to_assess"] = state["students_to_assess"][1:]
remaining(to_assess, assessment_data) == Tail(to_assess)

\* assess_student_node once the tool has returned, then the conditional edge.
assess_student_returned ==
    /\ node = "assess_student" /\ pc = "returned"
    /\ state_assessments' = IF "error" \in DOMAIN result THEN state_assessments
                            ELSE Append(state_assessments,
                                        graph_record(current_student_code, result))
    /\ students_to_assess' = remaining(students_to_assess, result)
    /\ next_action' = IF students_to_assess' # <<>> THEN "assess_next" ELSE "done"
    /\ node' = route_after_assess(next_action')
    /\ forget_call
    /\ UNCHANGED <<loaded_exams, loaded_checklists, student_email, result, batchVars,
                   answerVars, current_student_code, state_result, state_checklists,
                   invoked, tool_intervals, answers>>

\* The head of the report: f"... Studenti valutati: {len(state['assessments'])} ..."
report(assessed_students) ==
    "REPORT VALUTAZIONE ESAME Studenti valutati: " \o ToString(Len(assessed_students))

\* generate_report_node, then the edge to END: run returns the final state.
generate_report_node ==
    /\ node = "generate_report"
    /\ state_result' = IF state_assessments = <<>> THEN "Nessuna valutazione completata"
                       ELSE report(state_assessments)
    /\ node' = "END"
    /\ UNCHANGED <<scoringVars, checklist, studentVars, batchVars, answerVars,
                   next_action, students_to_assess, current_student_code,
                   state_assessments, state_checklists, invoked, tool_intervals, answers>>

\* The runs: the rows of the responses file and max_students as in a batch, the
\* questions file with no question or with one.
GraphQuestionLists == {<<>>, BatchQuestions}
\* What the loader finds for the questions.
Found == [question_ids(BatchQuestions) -> ExamChecklists \cup {None}]

InitGraph ==
    /\ responses_data \in RowLists
    /\ max_students \in Limits
    /\ batch_pc = "idle"
    /\ students = <<>>
    /\ idx = 0
    /\ batch_results = <<>>
    /\ summary = None
    /\ assessment = EmptyDict
    /\ weight = 0
    /\ ret = None
    /\ returned = <<>>
    /\ checklist = None
    /\ loaded_exams = None
    /\ loaded_checklists = EmptyDict
    /\ NoStudent
    /\ NoTools

\* A step of the handler of assess_student_exam.
HandlerStep ==
    \/ no_response
    \/ question_error
    \/ no_checklist
    \/ \E c \in ExamChecklists : begin_features(c)
    \/ \E r \in Assessments : assess_feature(r)
    \/ oracle_error
    \/ score_question
    \/ return_result
    \/ return_error

\* A step of a node of the graph.
GraphStep ==
    \/ run
    \/ \E qs \in GraphQuestionLists : load_exam_node(qs)
    \/ load_exam_node_error
    \/ prepare_student_node
    \/ \E found \in Found : load_checklists_node(found)
    \/ assess_student_node
    \/ assess_student_returned
    \/ generate_report_node

NextGraph == GraphStep \/ HandlerStep

SpecGraph == InitGraph /\ [][NextGraph]_vars

\* The handler goes on while it is in its loops (the oracle returns or raises):
\* WF_vars(HandlerStep), with ENABLED <<HandlerStep>>_vars written out as the
\* place of the handler.
HandlerFair == []<>(pc \notin {"question", "feature"}) \/ []<><<HandlerStep>>_vars
\* graph.ainvoke runs the node that is ready, and awaits the tool it calls.
SpecGraphLive == SpecGraph /\ WF_vars(GraphStep) /\ HandlerFair

\* The exam is loaded: load_exam_node has got no error.
ExamLoaded == node # "idle" /\ loaded_exams # None
\* The emails of the students of the exam, in load order.
LoadedEmails == emails(exam_students)
\* The assess_student steps that have ended.
AssessSteps ==
    IF node = "assess_student" /\ pc # "idle" THEN Len(invoked) - 1 ELSE Len(invoked)
\* The calls of assess_student_exam are for the first students in load order,
\* one each; the students to assess are the others; at END every student has
\* had an assess_student step.
OncePerStudent ==
    /\ Len(invoked) <= Len(LoadedEmails)
    /\ invoked = SubSeq(LoadedEmails, 1, Len(invoked))
    /\ students_to_assess = SubSeq(LoadedEmails, AssessSteps + 1, Len(LoadedEmails))
    /\ node = "END" => AssessSteps = Len(LoadedEmails)
\* An assess_student step removes the head of students_to_assess; with no
\* student, prepare_student is followed by generate_report; END follows
\* generate_report.
HeadRemoved ==
    /\ node = "assess_student" /\ node' # "assess_student"
       => students_to_assess' = Tail(students_to_assess)
    /\ node = "prepare_student" /\ ExamLoaded /\ LoadedEmails = <<>>
       => node' = "generate_report"
    /\ node # "END" /\ node' = "END" => node = "generate_report"

C23_AtMostMaxStudents ==
    max_students # None
    => /\ Len(invoked) <= max_students[1]
       /\ Len(state_assessments) <= max_students[1]

\* C25: where load_exam_node has got an error, the run has made no call of
\* assess_student_exam and the result of the final state is the message of
\* load_exam_node.
C25_LoadErrorKept ==
    node # "idle" /\ node # "load_exam" /\ loaded_exams = None
    => /\ invoked = <<>>
       /\ state_assessments = <<>>
       /\ node = "END"
          => state_result = load_error_message("Questions file not found")
=============================================================================
